---- MODULE Spec2Model ----
(***************************************************************************)
(* A model of the Bookish local-first sync engine:                         *)
(*   - the pure reconciliation function of js/core/cache_core.js,          *)
(*   - the IndexedDB store and op queue of cache.js with the create /      *)
(*     edit / delete / replay / sync handlers of app.js,                   *)
(*   - the upload coordinator of js/irys_client_browser.js with the        *)
(*     funding policy of js/core/funding_policy.js,                        *)
(*   - the sync scheduler of js/sync_manager.js.                           *)
(* Each part has its own specification; the variables of the other parts   *)
(* stay at their initial values.                                           *)
(***************************************************************************)
EXTENDS Integers, Sequences, FiniteSets, TLC

VARIABLES
    \* ---- pure applyRemote (cache_core.js) ----
    arRemote,      \* remoteList argument
    arTombs,       \* tombstones argument
    arLocal,       \* localEntries argument
    arResult,      \* the returned {toAdd, toUpdate, toTombstone, toReplace}, or NoResult
    \* ---- local store, op queue, in-memory entries and ledger (cache.js, app.js) ----
    keys,          \* keyState.loaded / 'bookish.sym' present: the user is logged in
    store,         \* IndexedDB object store 'entries' (keyPath id): a set of records
    opsQueue,      \* IndexedDB object store 'ops': the durable op queue
    mem,           \* the in-memory entry objects, by object reference
    entries,       \* app.js `entries`: the references held by the in-memory array
    ledger,        \* the append-only ledger: ledger[t] is the record with txid t
    inflight,      \* write handlers suspended at their upload
    nextLocalId,   \* number of the next 'local-...' placeholder id
    nextOpId,      \* number of the next 'op-...' id
    replaying,     \* app.js `replaying`
    replayQ,       \* the ops replayOps has still to visit (its listOps snapshot)
    syncPc,        \* position of syncBooksFromArweave: idle, replay or fetch
    hist,          \* what the last step did (history, read by the claims only)
    \* ---- upload coordinator (irys_client_browser.js) ----
    clock,         \* Date.now() of the upload coordinator, in ms
    lastFund,      \* localStorage 'bookish:irys:lastFund', or NoFund
    fundBlock,     \* localStorage 'bookish:irys:fundBlock', or NoBlock
    payments,      \* the on-chain transactions sent so far, in order
    attempts,      \* the upload() calls: position and locals of each
    \* ---- sync scheduler (sync_manager.js) ----
    smNow,         \* Date.now() of the scheduler, in ms
    isSyncing, dirtyFlag, lastWriteAt, forceBalanceCheck, syncCycleCount,
    lastBalanceCheckAt, currentBalanceETH,
    syncInterval,  \* the timer handle held by `syncInterval`, or NoTimer
    timers,        \* pending setTimeout(syncLoop, delay) timers
    cycles,        \* runSyncCycle calls that passed the guard and have not ended
    checks,        \* balance checks of triggerPersistenceCheck that have not ended
    forceRequested, \* history: a forced check was asked for and no check decided since
    smHist,        \* what the last scheduler step did (history)
    \* ---- the pure decideFunding (funding_policy.js) ----
    dfArgs,        \* the argument object of a decideFunding call
    dfResult,      \* what the call returned, or NoDecision before the call
    \* ---- a call of another pure function (compactDuplicates, computeSyncInterval) ----
    callArgs,      \* the arguments of the call
    callResult,    \* what the call returned, or NoResult before the call
    \* ---- createServerless handlers between their two awaits (app.js) ----
    creating,      \* payloads whose detectDuplicate found nothing, record not yet put
    \* ---- the Arweave availability probes of the status dots (app.js) ----
    probeBackoff,  \* the Map probeBackoff: txid -> { fails, lastAttempt }
    probes,        \* per txid: entry.onArweave, the probes in flight, and history
    \* ---- the storage manager's localStorage items (core/storage_manager.js) ----
    sessionItems,  \* the STORAGE_KEYS that have an item in localStorage
    \* ---- auto-persistence of the account (sync_manager.js) ----
    autoPersist,   \* autoPersistenceTriggered, the account's arweaveTxId, and history
    loopStopped    \* history: stopSync returned, no startSync / triggerSyncNow since

arVars == <<arRemote, arTombs, arLocal, arResult>>
storeVars == <<keys, store, opsQueue, mem, entries, ledger, inflight, nextLocalId,
               nextOpId, replaying, replayQ, syncPc, hist>>
upVars == <<clock, lastFund, fundBlock, payments, attempts>>
smVars == <<smNow, isSyncing, dirtyFlag, lastWriteAt, forceBalanceCheck, syncCycleCount,
            lastBalanceCheckAt, currentBalanceETH, syncInterval, timers, cycles, checks,
            forceRequested, smHist>>
dfVars == <<dfArgs, dfResult>>
probeVars == <<probeBackoff, probes, sessionItems>>
persistVars == <<autoPersist, loopStopped>>
callVars == <<callArgs, callResult, creating, probeVars, persistVars>>
vars == <<arVars, storeVars, upVars, smVars, dfVars, callVars>>

(***************************************************************************)
(* Bounds                                                                  *)
(***************************************************************************)
\* txids the pure applyRemote inputs are drawn from: 1..MaxArTxid
MaxArTxid == 2
\* longest remote list, tombstone list and local entry list of the pure inputs
MaxArLen == 2
\* longest tombstone list and local entry list next to remote entries that
\* declare a contentHash
MaxSideLen == 1
\* records the ledger accepts in one run (txids 1..MaxLedger)
MaxLedger == 2
\* entries created on this device in one run
MaxLocal == 2
\* write handlers suspended at their upload at the same time
MaxInflight == 1
\* in-memory entry objects alive at the same time
MaxObj == 4
\* ops queued in one run
MaxOps == 2
\* upload() calls in one run
MaxAttempts == 2
\* the scheduler's clock starts at TickMs and advances by TickMs, to MaxSyncClock
TickMs == 30000
MaxSyncClock == 180000
\* runSyncCycle calls in one run
MaxCycles == 5
\* sync loops (pending timers and running cycles) alive at the same time
MaxLoops == 2
\* balance checks of triggerPersistenceCheck in flight at the same time
MaxChecks == 1
\* the clock of the balance-check specification advances by SlowTickMs, to
\* MaxBalanceClock
SlowTickMs == 150000
MaxBalanceClock == 480000

(***************************************************************************)
(* Values                                                                  *)
(***************************************************************************)
\* a missing txid / prevTxid / ref (null or undefined in the source)
NoTx == 0
NoResult == [none |-> TRUE]
NoEntry == [none |-> TRUE]
\* references of in-memory entry objects
Obj == 1..MaxObj
NoHash == <<"none", "none">>

\* upload() calls of one run
Attempts == 1..MaxAttempts
NoArgs == [none |-> TRUE]
NoDecision == [action |-> "none"]
NoFund == [none |-> TRUE]
NoBlock == [none |-> TRUE]
\* an upload() call that has not been made
IdleAttempt ==
    [pc |-> "idle", first |-> "none", decision |-> "none", amount |-> 0,
     polled |-> FALSE, start |-> 0, wake |-> 0, maxMs |-> 0, result |-> "none"]
\* currentBalanceETH = null; syncInterval = null
NoBalance == "null"
NoTimer == 0

\* The semantic fields of an entry (title|author|edition|format|dateRead),
\* taken as one value.
Contents == {"a"}

\* computeContentHash: 'sha256-' + hex(SHA-256(fields joined by '|')).
\* SHA-256 is taken as collision free: the hash is the tagged content.
computeContentHash(content) == <<"sha256", content>>

(***************************************************************************)
(* cache_core.js: applyRemote                                              *)
(***************************************************************************)
\* new Set(tombstones.map(t => t.ref).filter(Boolean))
tombRefsOf(tombstones) ==
    {tombstones[i].ref : i \in 1..Len(tombstones)} \ {NoTx}

\* the lookup built from the live local entries only: a tombstoned local entry
\* is not found under its txid
localMapByTxGetLiveOnly(localEntries, txid) ==
    LET idx == {i \in 1..Len(localEntries) :
                   /\ localEntries[i].txid # NoTx /\ localEntries[i].txid = txid
                   /\ localEntries[i].status # "tombstoned"}
    IN IF txid = NoTx \/ idx = {} THEN NoEntry
       ELSE localEntries[CHOOSE i \in idx : \A j \in idx : j <= i]

\* new Map(localEntries.filter(e => e.txid).map(e => [e.txid, e])).get(txid):
\* a later entry of the list overwrites an earlier one with the same txid.
localMapByTxGet(localEntries, txid) ==
    LET idx == {i \in 1..Len(localEntries) :
                   localEntries[i].txid # NoTx /\ localEntries[i].txid = txid}
    IN IF txid = NoTx \/ idx = {} THEN NoEntry
       ELSE localEntries[CHOOSE i \in idx : \A j \in idx : j <= i]

\* { ...existing, ...updates } of the branch for a remote entry that is local
existingUpdated(existing) ==
    [existing EXCEPT
        !.status = IF existing.status = "pending" THEN "confirmed" ELSE @,
        !.pending = IF existing.status = "pending" /\ existing.pending THEN FALSE ELSE @,
        !.seenRemote = TRUE]

\* `changed` taken as true for every remote entry found in the cache
existingChangedAlways(existing) == TRUE

existingChanged(existing) ==
    existing.status = "pending" \/ ~existing.seenRemote

\* newEntry taking the contentHash the remote entry declares, when it has one
newEntryOfDeclaredHash(r) ==
    [id |-> r.txid, txid |-> r.txid, status |-> "confirmed", seenRemote |-> TRUE,
     pending |-> FALSE, content |-> r.content,
     contentHash |-> IF r.contentHash # NoHash THEN r.contentHash
                     ELSE computeContentHash(r.content)]

\* newEntry built from a remote entry that has no local counterpart
newEntryOf(r) ==
    [id |-> r.txid, txid |-> r.txid, status |-> "confirmed", seenRemote |-> TRUE,
     pending |-> FALSE, content |-> r.content,
     contentHash |-> computeContentHash(r.content)]

emptyResult == [toAdd |-> <<>>, toUpdate |-> <<>>, toTombstone |-> <<>>, toReplace |-> <<>>]

\* processRemote without the `if (tombRefs.has(r.txid)) continue` line
processRemoteNoTombSkip(r, tombRefs, localEntries, acc) ==
    LET existing == localMapByTxGet(localEntries, r.txid) IN
    IF existing # NoEntry
    THEN IF existingChanged(existing)
         THEN [acc EXCEPT !.toUpdate = Append(@, existingUpdated(existing))]
         ELSE acc
    ELSE LET supersededLocal ==
                 IF r.prevTxid # NoTx
                 THEN localMapByTxGet(localEntries, r.prevTxid) ELSE NoEntry
         IN IF supersededLocal # NoEntry
            THEN [acc EXCEPT !.toReplace =
                     Append(@, [prevTxid |-> r.prevTxid, entry |-> newEntryOf(r)])]
            ELSE [acc EXCEPT !.toAdd = Append(@, newEntryOf(r))]

\* processRemote without the supersededLocal check: every unknown txid is added
processRemoteNoSupersede(r, tombRefs, localEntries, acc) ==
    IF r.txid \in tombRefs THEN acc
    ELSE LET existing == localMapByTxGet(localEntries, r.txid) IN
         IF existing # NoEntry
         THEN IF existingChanged(existing)
              THEN [acc EXCEPT !.toUpdate = Append(@, existingUpdated(existing))]
              ELSE acc
         ELSE [acc EXCEPT !.toAdd = Append(@, newEntryOf(r))]

\* the body of `for (const r of remoteList)` for one r, added to the lists so far
processRemote(r, tombRefs, localEntries, acc) ==
    IF r.txid \in tombRefs THEN acc
    ELSE LET existing == localMapByTxGet(localEntries, r.txid) IN
         IF existing # NoEntry
         THEN IF existingChanged(existing)
              THEN [acc EXCEPT !.toUpdate = Append(@, existingUpdated(existing))]
              ELSE acc
         ELSE LET supersededLocal ==
                      IF r.prevTxid # NoTx
                      THEN localMapByTxGet(localEntries, r.prevTxid) ELSE NoEntry
              IN IF supersededLocal # NoEntry
                 THEN [acc EXCEPT !.toReplace =
                          Append(@, [prevTxid |-> r.prevTxid, entry |-> newEntryOf(r)])]
                 ELSE [acc EXCEPT !.toAdd = Append(@, newEntryOf(r))]

RECURSIVE remoteLoop(_, _, _, _, _)
remoteLoop(remoteList, i, tombRefs, localEntries, acc) ==
    IF i > Len(remoteList) THEN acc
    ELSE remoteLoop(remoteList, i + 1, tombRefs, localEntries,
                    processRemote(remoteList[i], tombRefs, localEntries, acc))

\* the second loop: `for (const e of localEntries)` marking tombstoned entries
RECURSIVE tombstoneLoop(_, _, _, _)
tombstoneLoop(localEntries, i, tombRefs, acc) ==
    IF i > Len(localEntries) THEN acc
    ELSE LET e == localEntries[i] IN
         tombstoneLoop(localEntries, i + 1, tombRefs,
            IF e.txid # NoTx /\ e.txid \in tombRefs /\ e.status # "tombstoned"
            THEN [acc EXCEPT !.toTombstone = Append(@, [e EXCEPT !.status = "tombstoned"])]
            ELSE acc)

coreApplyRemote(remoteList, tombstones, localEntries) ==
    LET tombRefs == tombRefsOf(tombstones) IN
    tombstoneLoop(localEntries, 1, tombRefs,
        remoteLoop(remoteList, 1, tombRefs, localEntries, emptyResult))

(***************************************************************************)
(* Each part at rest: the initial values of its variables                  *)
(***************************************************************************)
ArIdle ==
    /\ arRemote = <<>> /\ arTombs = <<>> /\ arLocal = <<>> /\ arResult = NoResult

StoreIdle ==
    /\ keys = FALSE /\ store = {} /\ opsQueue = {} /\ entries = {}
    /\ mem = [o \in Obj |-> NoEntry]
    /\ ledger = <<>> /\ inflight = {} /\ nextLocalId = 1 /\ nextOpId = 1
    /\ replaying = FALSE /\ replayQ = <<>> /\ syncPc = "idle" /\ hist = [op |-> "none"]

\* no upload() call yet, nothing in localStorage
UploadIdle ==
    /\ clock = 0 /\ lastFund = NoFund /\ fundBlock = NoBlock /\ payments = <<>>
    /\ attempts = [a \in Attempts |-> IdleAttempt]

MaxProbeTxid == 1
ProbeTxids == 1..MaxProbeTxid
\* no probe attempted yet
NoAttempt == -1
\* probeBackoff.get(txid) is undefined
NoProbeState == [none |-> TRUE]

\* no createServerless handler between its awaits; the Map probeBackoff is
\* empty, no entry is on Arweave and no probe is in flight
HandlersIdle ==
    /\ creating = <<>>
    /\ probeBackoff = [t \in ProbeTxids |-> NoProbeState]
    /\ sessionItems = {}
    /\ autoPersist = [triggered |-> FALSE, persisted |-> FALSE, completed |-> FALSE]
    /\ loopStopped = FALSE
    /\ probes = [t \in ProbeTxids |->
                   [onArweave |-> FALSE, inFlight |-> 0, issuedAt |-> NoAttempt,
                    failed |-> 0]]

\* no decideFunding call under study
DecideIdle ==
    /\ dfArgs = NoArgs /\ dfResult = NoDecision
    /\ callArgs = NoArgs /\ callResult = NoResult /\ HandlersIdle

\* the module-level `let`s of sync_manager.js
SyncIdle ==
    /\ smNow = TickMs /\ isSyncing = FALSE /\ dirtyFlag = FALSE /\ lastWriteAt = 0
    /\ forceBalanceCheck = FALSE /\ syncCycleCount = 0 /\ lastBalanceCheckAt = 0
    /\ currentBalanceETH = NoBalance /\ syncInterval = NoTimer /\ timers = {}
    /\ cycles = {} /\ checks = {} /\ forceRequested = FALSE
    /\ smHist = [op |-> "none"]

(***************************************************************************)
(* Inputs of the pure applyRemote                                          *)
(***************************************************************************)
ArTxids == 1..MaxArTxid
\* ids of entries that have no txid yet ('local-...' placeholders)
ArLocalIds == {-i : i \in 1..MaxArLen}

SeqsUpTo(S, n) == UNION {[1..k -> S] : k \in 0..n}

ArRemoteEntries == [txid : ArTxids, prevTxid : {NoTx} \cup ArTxids, content : {"a"}]
ArTombstones == [txid : {NoTx}, ref : {NoTx} \cup ArTxids]
\* an entry with a txid has id = txid; one without is pending and was never seen
ArLocalEntries ==
    {e \in [id : ArLocalIds \cup ArTxids, txid : {NoTx} \cup ArTxids,
            status : {"pending", "confirmed", "tombstoned"}, seenRemote : BOOLEAN,
            pending : BOOLEAN, content : {"a"}, contentHash : {computeContentHash("a")}] :
        /\ e.txid # NoTx => e.id = e.txid
        /\ e.txid = NoTx => e.id \in ArLocalIds /\ e.status = "pending" /\ ~e.seenRemote
        /\ e.pending = (e.status = "pending")}
\* the store's key is id: a list of local entries has no id twice
ArLocalLists ==
    {l \in SeqsUpTo(ArLocalEntries, MaxArLen) :
        \A i, j \in 1..Len(l) : i # j => l[i].id # l[j].id}

\* a txid names one immutable ledger record: a remote list may repeat a record
\* but holds no two different records under one txid
ArRemoteLists ==
    {l \in SeqsUpTo(ArRemoteEntries, MaxArLen) :
        \A i, j \in 1..Len(l) : l[i].txid = l[j].txid => l[i] = l[j]}

InitApplyRemote ==
    /\ StoreIdle /\ UploadIdle /\ SyncIdle /\ DecideIdle
    /\ arRemote \in ArRemoteLists
    /\ arTombs \in SeqsUpTo(ArTombstones, MaxArLen)
    /\ arLocal \in ArLocalLists
    /\ arResult = NoResult

\* one call of the pure function on the drawn inputs
CallApplyRemote ==
    /\ arResult = NoResult
    /\ arResult' = coreApplyRemote(arRemote, arTombs, arLocal)
    /\ UNCHANGED <<arRemote, arTombs, arLocal, storeVars, upVars, smVars, dfVars, callVars>>

NextApplyRemote == CallApplyRemote

SpecApplyRemote == InitApplyRemote /\ [][NextApplyRemote]_vars

(***************************************************************************)
(* Claims about the pure applyRemote                                       *)
(***************************************************************************)
ArRefs == {arTombs[i].ref : i \in 1..Len(arTombs)} \ {NoTx}
ArLocalTxids == {arLocal[i].txid : i \in 1..Len(arLocal)} \ {NoTx}
SeqRange(s) == {s[i] : i \in 1..Len(s)}

\* C2: whatever the remote list, the tombstone list and the local list (in any
\* order), applyRemote returns no entry in toAdd, toUpdate or toReplace whose
\* txid is referenced by a tombstone; and when the only remote entry is
\* referenced by a tombstone and no local entry is, all four lists are empty.
C2_NoTombstonedTxidReturned ==
    arResult # NoResult =>
        /\ \A e \in SeqRange(arResult.toAdd) : e.txid \notin ArRefs
        /\ \A e \in SeqRange(arResult.toUpdate) : e.txid \notin ArRefs
        /\ \A x \in SeqRange(arResult.toReplace) : x.entry.txid \notin ArRefs
        /\ (/\ Len(arRemote) = 1
            /\ arRemote[1].txid \in ArRefs
            /\ ArLocalTxids \cap ArRefs = {})
           => arResult = emptyResult

\* a call with a tombstoned remote entry beside one that is returned
C2_Witness ==
    /\ arResult # NoResult
    /\ \E i \in 1..Len(arRemote) : arRemote[i].txid \in ArRefs
    /\ Len(arRemote) = 2
    /\ arResult.toAdd # <<>>

\* C4: a remote entry that is not tombstoned, whose txid no local entry has and
\* whose prevTxid is the txid of a local entry, is returned in toReplace with
\* that prevTxid, and not in toAdd.
C4_SupersessionIsReplace ==
    arResult # NoResult =>
        \A r \in SeqRange(arRemote) :
            (/\ r.txid \notin ArRefs
             /\ r.txid \notin ArLocalTxids
             /\ r.prevTxid \in ArLocalTxids)
            => /\ \E x \in SeqRange(arResult.toReplace) :
                      x.prevTxid = r.prevTxid /\ x.entry.txid = r.txid
               /\ \A e \in SeqRange(arResult.toAdd) : e.txid # r.txid

\* a call that returned a replacement
C4_Witness ==
    /\ arResult # NoResult
    /\ arResult.toReplace # <<>>
    /\ \E r \in SeqRange(arRemote) :
          r.txid \notin ArRefs /\ r.txid \notin ArLocalTxids /\ r.prevTxid \in ArLocalTxids

(***************************************************************************)
(* cache.js: the IndexedDB store                                           *)
(***************************************************************************)
\* if(!e.contentHash || !e.contentHash.startsWith('sha256-')) e.contentHash = hash
ensureContentHash(e) ==
    IF e.contentHash = NoHash \/ e.contentHash[1] # "sha256"
    THEN [e EXCEPT !.contentHash = computeContentHash(e.content)]
    ELSE e

\* store.put(e): the record with the same key (id) is replaced
storePut(st, e) == {x \in st : x.id # e.id} \cup {e}

putEntry(st, e) == storePut(st, ensureContentHash(e))

deleteById(st, id) == {x \in st : x.id # id}

\* if(oldId && oldId !== rec.id) deleteById(oldId); putEntry(rec)
replaceProvisional(st, oldId, rec) ==
    putEntry(IF oldId # rec.id THEN deleteById(st, oldId) ELSE st, rec)

getAllActive(st) == {e \in st : e.status # "tombstoned"}

\* a cursor over the object store visits the records in key order
RECURSIVE listAllRaw(_)
listAllRaw(st) ==
    IF st = {} THEN <<>>
    ELSE LET first == CHOOSE e \in st : \A x \in st : e.id <= x.id
         IN <<first>> \o listAllRaw(st \ {first})

RECURSIVE putAll(_, _, _)
putAll(st, list, i) ==
    IF i > Len(list) THEN st ELSE putAll(putEntry(st, list[i]), list, i + 1)

\* cache.js applyRemote: toUpdate, toTombstone and toAdd are written; the
\* toReplace list of the result is not read
cacheApplyRemote(st, remoteList, tombstones) ==
    LET result == coreApplyRemote(remoteList, tombstones, listAllRaw(st))
    IN putAll(putAll(putAll(st, result.toUpdate, 1), result.toTombstone, 1),
              result.toAdd, 1)

\* coreDetectDuplicate(payload, listAllRaw())
detectDuplicate(st, content) ==
    \E e \in st : e.contentHash = computeContentHash(content) /\ e.status # "tombstoned"

(***************************************************************************)
(* browser_client.js / app.js: reading the ledger                          *)
(***************************************************************************)
Txids == 1..MaxLedger

RECURSIVE seqOfSet(_)
seqOfSet(S) ==
    IF S = {} THEN <<>>
    ELSE LET m == CHOOSE x \in S : \A y \in S : x <= y
         IN <<m>> \o seqOfSet(S \ {m})

isTomb(t) == ledger[t].kind = "tomb"

\* computeLiveSets over the edges a query returned
edgeTombstones(edges) == {t \in edges : isTomb(t)}
edgeSuperseded(edges) == {ledger[t].prev : t \in {u \in edges : ledger[u].prev # NoTx}}
edgeTombRefs(edges) == {ledger[t].ref : t \in edgeTombstones(edges)} \ {NoTx}
liveEdges(edges) ==
    {t \in edges : ~isTomb(t) /\ t \notin edgeTombRefs(edges)
                   /\ t \notin edgeSuperseded(edges)}
tombstonesOf(edges) ==
    LET ts == seqOfSet(edgeTombstones(edges))
    IN [i \in 1..Len(ts) |-> [txid |-> ts[i], ref |-> ledger[ts[i]].ref]]

\* serverlessFetchEntries: txids cached as confirmed and seen are not decrypted
confirmedTxids(st) ==
    {e.txid : e \in {x \in st : x.txid # NoTx /\ x.seenRemote /\ x.status = "confirmed"}}
needsDecrypt(edges, st) == liveEdges(edges) \ confirmedTxids(st)
\* the hydrated list: decrypted payloads, and cached fields for synced entries
hydrated(edges, undecryptable, st) ==
    LET shown == seqOfSet(liveEdges(edges) \ undecryptable)
    IN [i \in 1..Len(shown) |->
          [txid |-> shown[i], prevTxid |-> ledger[shown[i]].prev,
           content |-> IF shown[i] \in confirmedTxids(st)
                       THEN (CHOOSE e \in st : e.txid = shown[i]).content
                       ELSE ledger[shown[i]].content]]

(***************************************************************************)
(* app.js: in-memory objects                                               *)
(***************************************************************************)
usedObjs(ents, infl) == ents \cup {op.obj : op \in infl}
\* objects nothing refers to any more are dropped
collect(m, ents, infl) ==
    [o \in Obj |-> IF o \in usedObjs(ents, infl) THEN m[o] ELSE NoEntry]
freeObjs == Obj \ usedObjs(entries, inflight)
newObj == CHOOSE o \in freeObjs : \A x \in freeObjs : o <= x
nthSmallest(S, n) == CHOOSE x \in S : Cardinality({y \in S : y < x}) = n - 1

HistNone == [op |-> "none"]
FailCodes == {"network", "post-fund-timeout", "base-insufficient-funds"}

\* the fields a successful publish sets on the entry object
published(rec, txid) ==
    [rec EXCEPT !.txid = txid, !.id = txid, !.pending = FALSE,
                !.status = "confirmed", !.seenRemote = TRUE]

uploadOp(kind, o, priorTxid, content, snapshot, opId) ==
    [kind |-> kind, obj |-> o, priorTxid |-> priorTxid, content |-> content,
     snapshot |-> snapshot, opId |-> opId, txid |-> NoTx]

(***************************************************************************)
(* app.js: createServerless                                                *)
(***************************************************************************)
\* after the duplicate check and up to the upload: new pending record, put;
\* without keys the handler returns here and nothing is uploaded
createRecord(c) ==
    /\ nextLocalId <= MaxLocal
    /\ freeObjs # {}
    /\ LET rec == ensureContentHash(
                     [id |-> -nextLocalId, txid |-> NoTx, status |-> "pending",
                      seenRemote |-> FALSE, pending |-> TRUE, content |-> c,
                      contentHash |-> NoHash])
           o == newObj
       IN /\ mem' = [mem EXCEPT ![o] = rec]
          /\ entries' = entries \cup {o}
          /\ store' = storePut(store, rec)
          /\ inflight' = IF keys
                         THEN inflight \cup {uploadOp("create", o, NoTx, c, NoEntry, 0)}
                         ELSE inflight
    /\ nextLocalId' = nextLocalId + 1
    /\ hist' = HistNone
    /\ UNCHANGED <<keys, opsQueue, ledger, nextOpId, replaying, replayQ, syncPc>>

\* the handler with no other handler running between its duplicate check and
\* its put
CreateBegin(c) ==
    /\ ~detectDuplicate(store, c)
    /\ keys => Cardinality(inflight) < MaxInflight
    /\ createRecord(c)

\* the ledger accepts the signed payload of a suspended handler
LedgerAccept(op) ==
    /\ op \in inflight
    /\ op.txid = NoTx
    /\ Len(ledger) < MaxLedger
    /\ ledger' = Append(ledger,
          IF op.kind = "delete"
          THEN [kind |-> "tomb", prev |-> NoTx, ref |-> op.priorTxid, content |-> "a"]
          ELSE [kind |-> "entry", prev |-> op.priorTxid, ref |-> NoTx,
                content |-> op.content])
    /\ inflight' = (inflight \ {op}) \cup {[op EXCEPT !.txid = Len(ledger) + 1]}
    /\ hist' = HistNone
    /\ UNCHANGED <<keys, store, opsQueue, mem, entries, nextLocalId, nextOpId,
                   replaying, replayQ, syncPc>>

\* uploadEntry returned { txid }: rec takes the txid, the placeholder is replaced
CreateComplete(op) ==
    /\ op \in inflight /\ op.kind = "create" /\ op.txid # NoTx
    /\ LET rec == mem[op.obj]
           new == ensureContentHash(published(rec, op.txid))
       IN /\ store' = replaceProvisional(store, rec.id, new)
          /\ inflight' = inflight \ {op}
          /\ mem' = collect([mem EXCEPT ![op.obj] = new], entries, inflight')
    /\ hist' = HistNone
    /\ UNCHANGED <<keys, opsQueue, entries, ledger, nextLocalId, nextOpId,
                   replaying, replayQ, syncPc>>

\* uploadEntry threw: every branch of the catch queues { type:'create', localId, payload }
CreateFail(op, code) ==
    /\ op \in inflight /\ op.kind = "create"
    /\ nextOpId <= MaxOps
    /\ opsQueue' = opsQueue \cup
          {[id |-> nextOpId, type |-> "create", localId |-> mem[op.obj].id,
            content |-> op.content]}
    /\ nextOpId' = nextOpId + 1
    /\ inflight' = inflight \ {op}
    /\ mem' = collect(mem, entries, inflight')
    /\ hist' = [op |-> "fail", kind |-> "create", code |-> code,
                target |-> mem[op.obj].id]
    /\ UNCHANGED <<keys, store, entries, ledger, nextLocalId, replaying, replayQ, syncPc>>

(***************************************************************************)
(* app.js: editServerless                                                  *)
(***************************************************************************)
\* priorTxid as openModal puts it in the form: entry.txid || entry.id
priorOf(rec) == IF rec.txid # NoTx THEN rec.txid ELSE rec.id

\* up to the upload: the object takes the payload and becomes pending, put.
\* A local-only entry ends here; without keys the catch restores the snapshot.
EditBegin(o, c) ==
    /\ o \in entries
    /\ LET old == mem[o]
           edited == [old EXCEPT !.content = c, !.pending = TRUE,
                                 !.status = "pending", !.seenRemote = FALSE]
       IN IF old.txid = NoTx
          THEN /\ mem' = [mem EXCEPT ![o] = ensureContentHash(edited)]
               /\ store' = putEntry(store, edited)
               /\ hist' = HistNone
               /\ UNCHANGED inflight
          ELSE IF ~keys
          THEN /\ mem' = [mem EXCEPT ![o] = ensureContentHash(old)]
               /\ store' = putEntry(putEntry(store, edited), old)
               /\ hist' = [op |-> "fail", kind |-> "edit", code |-> "no-keys",
                           target |-> priorOf(old)]
               /\ UNCHANGED inflight
          ELSE /\ Cardinality(inflight) < MaxInflight
               /\ mem' = [mem EXCEPT ![o] = ensureContentHash(edited)]
               /\ store' = putEntry(store, edited)
               /\ inflight' = inflight \cup {uploadOp("edit", o, priorOf(old), c, old, 0)}
               /\ hist' = HistNone
    /\ UNCHANGED <<keys, opsQueue, entries, ledger, nextLocalId, nextOpId,
                   replaying, replayQ, syncPc>>

\* uploadEntry returned: old takes the new txid; replaceProvisional(priorTxid, old)
EditComplete(op) ==
    /\ op \in inflight /\ op.kind = "edit" /\ op.txid # NoTx
    /\ LET new == ensureContentHash(published(mem[op.obj], op.txid))
       IN /\ store' = replaceProvisional(store, op.priorTxid, new)
          /\ inflight' = inflight \ {op}
          /\ mem' = collect([mem EXCEPT ![op.obj] = new], entries, inflight')
    /\ hist' = HistNone
    /\ UNCHANGED <<keys, opsQueue, entries, ledger, nextLocalId, nextOpId,
                   replaying, replayQ, syncPc>>

\* uploadEntry threw: every branch restores the snapshot and puts it; the
\* { type:'edit' } op is kept in lastPendingOp only, nothing is queued
EditFail(op, code) ==
    /\ op \in inflight /\ op.kind = "edit"
    /\ LET restored == ensureContentHash(op.snapshot)
       IN /\ store' = putEntry(store, restored)
          /\ inflight' = inflight \ {op}
          /\ mem' = collect([mem EXCEPT ![op.obj] = restored], entries, inflight')
    /\ hist' = [op |-> "fail", kind |-> "edit", code |-> code, target |-> op.priorTxid]
    /\ UNCHANGED <<keys, opsQueue, entries, ledger, nextLocalId, nextOpId,
                   replaying, replayQ, syncPc>>

(***************************************************************************)
(* app.js: deleteServerless                                                *)
(***************************************************************************)
\* a local-only entry is removed from the store and from the array; an entry
\* with a txid is tombstoned on the ledger first (without keys that throws)
DeleteBegin(o) ==
    /\ o \in entries
    /\ LET entry == mem[o]
       IN IF entry.txid = NoTx
          THEN /\ store' = deleteById(store, entry.id)
               /\ entries' = entries \ {o}
               /\ mem' = collect(mem, entries', inflight)
               /\ hist' = HistNone
               /\ UNCHANGED inflight
          ELSE IF ~keys
          THEN /\ hist' = [op |-> "fail", kind |-> "delete", code |-> "no-keys",
                           target |-> entry.txid]
               /\ UNCHANGED <<store, entries, mem, inflight>>
          ELSE /\ Cardinality(inflight) < MaxInflight
               /\ inflight' = inflight \cup
                     {uploadOp("delete", o, entry.txid, entry.content, NoEntry, 0)}
               /\ hist' = HistNone
               /\ UNCHANGED <<store, entries, mem>>
    /\ UNCHANGED <<keys, opsQueue, ledger, nextLocalId, nextOpId, replaying,
                   replayQ, syncPc>>

\* tombstone() returned: the entry is tombstoned in the store and leaves the array
DeleteComplete(op) ==
    /\ op \in inflight /\ op.kind = "delete" /\ op.txid # NoTx
    /\ LET dead == ensureContentHash([mem[op.obj] EXCEPT !.status = "tombstoned"])
           m1 == [mem EXCEPT ![op.obj] = dead]
       IN /\ store' = putEntry(store, dead)
          /\ inflight' = inflight \ {op}
          /\ entries' = {o \in entries : m1[o].status # "tombstoned"}
          /\ mem' = collect(m1, entries', inflight')
    /\ hist' = HistNone
    /\ UNCHANGED <<keys, opsQueue, ledger, nextLocalId, nextOpId, replaying,
                   replayQ, syncPc>>

\* tombstone() threw: 'Delete failed' is shown, nothing is stored or queued
DeleteFail(op, code) ==
    /\ op \in inflight /\ op.kind = "delete"
    /\ inflight' = inflight \ {op}
    /\ mem' = collect(mem, entries, inflight')
    /\ hist' = [op |-> "fail", kind |-> "delete", code |-> code, target |-> op.priorTxid]
    /\ UNCHANGED <<keys, store, opsQueue, entries, ledger, nextLocalId, nextOpId,
                   replaying, replayQ, syncPc>>

(***************************************************************************)
(* app.js: replayOps                                                       *)
(***************************************************************************)
\* listOps(): the queued ops sorted by createdAt (op ids grow with time)
RECURSIVE listOps(_)
listOps(q) ==
    IF q = {} THEN <<>>
    ELSE LET first == CHOOSE x \in q : \A y \in q : x.id <= y.id
         IN <<first>> \o listOps(q \ {first})

removeOp(q, id) == {x \in q : x.id # id}

replayInFlight == \E op \in inflight : op.kind = "replay"

\* `finally { replaying = false }` once the loop has no op left; a sync that
\* awaited this replay goes on to fetch
replayingAfter(rest) == rest # <<>>
syncPcAfterReplay(rest) ==
    IF rest = <<>> /\ syncPc = "replay" THEN "fetch" ELSE syncPc

\* replayOps() from the 'online' event: guarded by `replaying`, needs keys and ops
ReplayStart ==
    /\ ~replaying /\ keys /\ opsQueue # {}
    /\ replaying' = TRUE
    /\ replayQ' = listOps(opsQueue)
    /\ hist' = HistNone
    /\ UNCHANGED <<keys, store, opsQueue, mem, entries, ledger, inflight,
                   nextLocalId, nextOpId, syncPc>>

\* one turn of `for (const op of ops)` up to its upload: an op whose entry is
\* gone from the array or already has a txid is removed from the queue
ReplayVisit ==
    /\ replaying /\ replayQ # <<>> /\ ~replayInFlight
    /\ LET op == Head(replayQ)
           locals == {o \in entries : mem[o].id = op.localId}
       IN IF locals = {} \/ \A o \in locals : mem[o].txid # NoTx
          THEN /\ opsQueue' = removeOp(opsQueue, op.id)
               /\ replayQ' = Tail(replayQ)
               /\ replaying' = replayingAfter(Tail(replayQ))
               /\ syncPc' = syncPcAfterReplay(Tail(replayQ))
               /\ UNCHANGED inflight
          ELSE /\ Cardinality(inflight) < MaxInflight
               /\ \E o \in locals :
                     /\ mem[o].txid = NoTx
                     /\ inflight' = inflight \cup
                           {uploadOp("replay", o, NoTx, op.content, NoEntry, op.id)}
               /\ UNCHANGED <<opsQueue, replayQ, replaying, syncPc>>
    /\ hist' = HistNone
    /\ UNCHANGED <<keys, store, mem, entries, ledger, nextLocalId, nextOpId>>

\* the replayed upload returned: as in createServerless, then removeOp
ReplayComplete(op) ==
    /\ op \in inflight /\ op.kind = "replay" /\ op.txid # NoTx
    /\ LET local == mem[op.obj]
           new == ensureContentHash(published(local, op.txid))
       IN /\ store' = replaceProvisional(store, local.id, new)
          /\ inflight' = inflight \ {op}
          /\ mem' = collect([mem EXCEPT ![op.obj] = new], entries, inflight')
    /\ opsQueue' = removeOp(opsQueue, op.opId)
    /\ replayQ' = Tail(replayQ)
    /\ replaying' = replayingAfter(Tail(replayQ))
    /\ syncPc' = syncPcAfterReplay(Tail(replayQ))
    /\ hist' = HistNone
    /\ UNCHANGED <<keys, entries, ledger, nextLocalId, nextOpId>>

\* the replayed upload threw: `break`, the op stays queued
ReplayFail(op, code) ==
    /\ op \in inflight /\ op.kind = "replay"
    /\ inflight' = inflight \ {op}
    /\ mem' = collect(mem, entries, inflight')
    /\ replayQ' = <<>>
    /\ replaying' = FALSE
    /\ syncPc' = syncPcAfterReplay(<<>>)
    /\ hist' = [op |-> "fail", kind |-> "create", code |-> code,
                target |-> mem[op.obj].id]
    /\ UNCHANGED <<keys, store, opsQueue, entries, ledger, nextLocalId, nextOpId>>

(***************************************************************************)
(* app.js: syncBooksFromArweave                                            *)
(***************************************************************************)
\* `await replayOps()`: started here unless one is running or nothing is queued
SyncStart ==
    /\ syncPc = "idle" /\ keys
    /\ IF ~replaying /\ opsQueue # {}
       THEN /\ replaying' = TRUE
            /\ replayQ' = listOps(opsQueue)
            /\ syncPc' = "replay"
       ELSE /\ syncPc' = "fetch"
            /\ UNCHANGED <<replaying, replayQ>>
    /\ hist' = HistNone
    /\ UNCHANGED <<keys, store, opsQueue, mem, entries, ledger, inflight,
                   nextLocalId, nextOpId>>

\* the query or a page of it failed: the cycle ends without touching the store
SyncFetchFail ==
    /\ syncPc = "fetch"
    /\ syncPc' = "idle"
    /\ hist' = HistNone
    /\ UNCHANGED <<keys, store, opsQueue, mem, entries, ledger, inflight,
                   nextLocalId, nextOpId, replaying, replayQ>>

\* the fresh objects `entries = await getAllActive()` puts in the array
clonesOf(active, free) ==
    [o \in Obj |->
        IF \E e \in active : o = nthSmallest(free, Cardinality({x \in active : x.id < e.id}) + 1)
        THEN CHOOSE e \in active :
                 o = nthSmallest(free, Cardinality({x \in active : x.id < e.id}) + 1)
        ELSE NoEntry]

\* the reconciliation pass: the edges the index returned (any part of the
\* ledger: the index lags), the payloads that could be decrypted, applyRemote
\* on the store, and the array reloaded from the store
SyncApply(edges, undecryptable) ==
    /\ syncPc = "fetch"
    /\ edges \subseteq 1..Len(ledger)
    /\ undecryptable \subseteq needsDecrypt(edges, store)
    /\ LET remote == hydrated(edges, undecryptable, store)
           tombstones == tombstonesOf(edges)
           st == cacheApplyRemote(store, remote, tombstones)
           active == getAllActive(st)
           free == Obj \ {op.obj : op \in inflight}
           clones == clonesOf(active, free)
       IN /\ Cardinality(active) <= Cardinality(free)
          /\ store' = st
          /\ entries' = {o \in Obj : clones[o] # NoEntry}
          /\ mem' = [o \in Obj |-> IF clones[o] # NoEntry THEN clones[o]
                                   ELSE IF o \in free THEN NoEntry ELSE mem[o]]
          /\ hist' = [op |-> "sync", remote |-> remote, tombstones |-> tombstones]
    /\ syncPc' = "idle"
    /\ UNCHANGED <<keys, opsQueue, ledger, inflight, nextLocalId, nextOpId,
                   replaying, replayQ>>

(***************************************************************************)
(* The user's other devices, and login                                     *)
(***************************************************************************)
ledgerLive == liveEdges(1..Len(ledger))

\* another device of the account publishes a new entry
RemoteCreate(c) ==
    /\ keys /\ Len(ledger) < MaxLedger
    /\ ledger' = Append(ledger, [kind |-> "entry", prev |-> NoTx, ref |-> NoTx,
                                 content |-> c])
    /\ hist' = HistNone
    /\ UNCHANGED <<keys, store, opsQueue, mem, entries, inflight, nextLocalId,
                   nextOpId, replaying, replayQ, syncPc>>

\* another device edits an entry that is live on the ledger (Prev = its txid)
RemoteEdit(t, c) ==
    /\ keys /\ Len(ledger) < MaxLedger /\ t \in ledgerLive
    /\ ledger' = Append(ledger, [kind |-> "entry", prev |-> t, ref |-> NoTx,
                                 content |-> c])
    /\ hist' = HistNone
    /\ UNCHANGED <<keys, store, opsQueue, mem, entries, inflight, nextLocalId,
                   nextOpId, replaying, replayQ, syncPc>>

\* another device deletes an entry that is live on the ledger (Ref = its txid)
RemoteDelete(t) ==
    /\ keys /\ Len(ledger) < MaxLedger /\ t \in ledgerLive
    /\ ledger' = Append(ledger, [kind |-> "tomb", prev |-> NoTx, ref |-> t,
                                 content |-> "a"])
    /\ hist' = HistNone
    /\ UNCHANGED <<keys, store, opsQueue, mem, entries, inflight, nextLocalId,
                   nextOpId, replaying, replayQ, syncPc>>

\* the symmetric key arrives (account created or logged in)
Login ==
    /\ ~keys
    /\ keys' = TRUE
    /\ hist' = HistNone
    /\ UNCHANGED <<store, opsQueue, mem, entries, ledger, inflight, nextLocalId,
                   nextOpId, replaying, replayQ, syncPc>>

(***************************************************************************)
(* The store specification                                                 *)
(***************************************************************************)
otherThanStore == <<arVars, upVars, smVars, dfVars, callVars>>

InitStore == ArIdle /\ StoreIdle /\ UploadIdle /\ SyncIdle /\ DecideIdle

NextStore ==
    \/ \E c \in Contents : CreateBegin(c) /\ UNCHANGED otherThanStore
    \/ \E op \in inflight : LedgerAccept(op) /\ UNCHANGED otherThanStore
    \/ \E op \in inflight : CreateComplete(op) /\ UNCHANGED otherThanStore
    \/ \E op \in inflight, code \in FailCodes : CreateFail(op, code) /\ UNCHANGED otherThanStore
    \/ \E o \in Obj, c \in Contents : EditBegin(o, c) /\ UNCHANGED otherThanStore
    \/ \E op \in inflight : EditComplete(op) /\ UNCHANGED otherThanStore
    \/ \E op \in inflight, code \in FailCodes : EditFail(op, code) /\ UNCHANGED otherThanStore
    \/ \E o \in Obj : DeleteBegin(o) /\ UNCHANGED otherThanStore
    \/ \E op \in inflight : DeleteComplete(op) /\ UNCHANGED otherThanStore
    \/ \E op \in inflight, code \in FailCodes : DeleteFail(op, code) /\ UNCHANGED otherThanStore
    \/ ReplayStart /\ UNCHANGED otherThanStore
    \/ ReplayVisit /\ UNCHANGED otherThanStore
    \/ \E op \in inflight : ReplayComplete(op) /\ UNCHANGED otherThanStore
    \/ \E op \in inflight, code \in FailCodes : ReplayFail(op, code) /\ UNCHANGED otherThanStore
    \/ SyncStart /\ UNCHANGED otherThanStore
    \/ SyncFetchFail /\ UNCHANGED otherThanStore
    \/ \E edges \in SUBSET Txids, und \in SUBSET Txids :
          SyncApply(edges, und) /\ UNCHANGED otherThanStore
    \/ \E c \in Contents : RemoteCreate(c) /\ UNCHANGED otherThanStore
    \/ \E t \in Txids, c \in Contents : RemoteEdit(t, c) /\ UNCHANGED otherThanStore
    \/ \E t \in Txids : RemoteDelete(t) /\ UNCHANGED otherThanStore
    \/ Login /\ UNCHANGED otherThanStore

SpecStore == InitStore /\ [][NextStore]_vars

(***************************************************************************)
(* Properties of the store                                                 *)
(***************************************************************************)
histRemoteTxids == {hist.remote[i].txid : i \in 1..Len(hist.remote)}

\* C1: a reconciliation pass (cache applyRemote) leaves every store entry that
\* was tombstoned before it tombstoned and absent from getAllActive(), whatever
\* remote list and tombstone list the pass received.
C1_TombstonedStaysTombstoned ==
    [][hist'.op = "sync" =>
          \A e \in store : e.status = "tombstoned" =>
              /\ \E x \in store' : x.id = e.id /\ x.status = "tombstoned"
              /\ \A x \in getAllActive(store') : x.id # e.id /\ x.txid # e.txid]_vars

\* a pass whose tombstone list was empty and whose remote list held the txid
\* of an entry that is tombstoned in the store
C1_Witness ==
    /\ hist.op = "sync"
    /\ hist.tombstones = <<>>
    /\ \E e \in store : e.status = "tombstoned" /\ e.txid \in histRemoteTxids

\* the first entry of the Prev chain that t belongs to
RECURSIVE lineageRoot(_)
lineageRoot(t) ==
    IF ledger[t].prev = NoTx THEN t ELSE lineageRoot(ledger[t].prev)

\* C3: the store never holds two live entries of one lineage (two published
\* live entries whose txids are connected by Prev references on the ledger).
C3_OneLiveEntryPerLineage ==
    \A e1, e2 \in getAllActive(store) :
        (e1.txid # NoTx /\ e2.txid # NoTx /\ e1.id # e2.id)
        => lineageRoot(e1.txid) # lineageRoot(e2.txid)

\* C5: after a reconciliation pass in which a remote entry (not tombstoned, not
\* yet stored) declares a prevTxid equal to a stored entry's txid, the store
\* contains the new entry (id = txid = the remote txid) and the superseded
\* entry is no longer a live record.
C5_ReconciliationSwaps ==
    [][hist'.op = "sync" =>
          \A i \in 1..Len(hist'.remote) :
              LET r == hist'.remote[i] IN
              (/\ r.txid \notin tombRefsOf(hist'.tombstones)
               /\ \A x \in store : x.txid # r.txid
               /\ \E x \in store : x.txid # NoTx /\ x.txid = r.prevTxid)
              => /\ \E x \in store' : x.id = r.txid /\ x.txid = r.txid
                 /\ \A x \in getAllActive(store') : x.txid # r.prevTxid]_vars

\* C6: a create, edit or delete whose publish failed has an Op of its kind for
\* its entry in the durable op queue.
C6_FailedWriteIsQueued ==
    hist.op = "fail" =>
        \E q \in opsQueue : q.type = hist.kind /\ q.localId = hist.target

(***************************************************************************)
(* funding_policy.js: decideFunding                                        *)
(***************************************************************************)
\* amounts are in gwei (10^9 wei), times in ms
FUND_BUFFER_BPS == 1000
FUND_COOLDOWN_MS == 480000
INSUFF_FUNDS_COOLDOWN_MS == 180000
RETRY_AFTER_FUND_MS == 180000
RETRY_WITH_RECENT_FUND_MS == 480000
RETRY_INTERVAL_MS == 7000
\* PROTOCOL_CONFIG.FLAT_FEE_WEI = '2500000000000' and FEE_ENABLED
FLAT_FEE_GWEI == 2500
FEE_ENABLED == TRUE

\* walletBalWei = null: the balance could not be read
NoBal == -1

Max(x, y) == IF x >= y THEN x ELSE y

\* (price * BigInt(bufferBps)) / 10000n
computeBuffer(priceWei, bufferBps) == (priceWei * bufferBps) \div 10000

\* String.prototype.toLowerCase on the addresses of the model
toLowerCase(str) ==
    IF str = "0xAB" THEN "0xab" ELSE IF str = "0xCD" THEN "0xcd" ELSE str

\* lastFundMatchesIdentity comparing the addresses as written
lastFundMatchesIdentityExactCase(lf, identity) ==
    /\ lf # NoFund
    /\ lf.node = identity.node
    /\ lf.token = identity.token
    /\ lf.address = identity.address

lastFundMatchesIdentity(lf, identity) ==
    /\ lf # NoFund
    /\ lf.node = identity.node
    /\ lf.token = identity.token
    /\ toLowerCase(lf.address) = toLowerCase(identity.address)

lastFundCooldownRemaining(lf, cooldownMs, nowMs) ==
    IF lf = NoFund THEN 0
    ELSE LET rem == lf.at + cooldownMs - nowMs IN IF rem > 0 THEN rem ELSE 0

\* decideFunding with check 2 (cooldown) before check 1 (fund block)
decideFundingCooldownFirst(priceWei, lf, fb, identity, walletBalWei, gasReserveWei, nowMs) ==
    LET amount == priceWei + computeBuffer(priceWei, FUND_BUFFER_BPS)
        cooldownMs == IF lastFundMatchesIdentity(lf, identity)
                      THEN lastFundCooldownRemaining(lf, FUND_COOLDOWN_MS, nowMs)
                      ELSE 0
    IN IF cooldownMs > 0
       THEN [action |-> "skip", reason |-> "cooldown", amountWei |-> 0,
             retryWindowMs |-> Max(RETRY_WITH_RECENT_FUND_MS, cooldownMs + 60000)]
       ELSE IF /\ fb # NoBlock
               /\ toLowerCase(fb.address) = toLowerCase(identity.address)
               /\ fb.until > nowMs
       THEN [action |-> "block", reason |-> "fund-block-active", amountWei |-> 0,
             retryWindowMs |-> 0]
       ELSE IF walletBalWei # NoBal /\ walletBalWei < amount + gasReserveWei
       THEN [action |-> "block", reason |-> "insufficient-balance",
             amountWei |-> amount, retryWindowMs |-> 0]
       ELSE [action |-> "fund", reason |-> "ok", amountWei |-> amount,
             retryWindowMs |-> RETRY_AFTER_FUND_MS]

\* decideFunding with check 3 leaving out the gas reserve
decideFundingNoGasReserve(priceWei, lf, fb, identity, walletBalWei, gasReserveWei, nowMs) ==
    LET amount == priceWei + computeBuffer(priceWei, FUND_BUFFER_BPS)
        cooldownMs == IF lastFundMatchesIdentity(lf, identity)
                      THEN lastFundCooldownRemaining(lf, FUND_COOLDOWN_MS, nowMs)
                      ELSE 0
    IN IF /\ fb # NoBlock
          /\ toLowerCase(fb.address) = toLowerCase(identity.address)
          /\ fb.until > nowMs
       THEN [action |-> "block", reason |-> "fund-block-active", amountWei |-> 0,
             retryWindowMs |-> 0]
       ELSE IF cooldownMs > 0
       THEN [action |-> "skip", reason |-> "cooldown", amountWei |-> 0,
             retryWindowMs |-> Max(RETRY_WITH_RECENT_FUND_MS, cooldownMs + 60000)]
       ELSE IF walletBalWei # NoBal /\ walletBalWei < amount
       THEN [action |-> "block", reason |-> "insufficient-balance",
             amountWei |-> amount, retryWindowMs |-> 0]
       ELSE [action |-> "fund", reason |-> "ok", amountWei |-> amount,
             retryWindowMs |-> RETRY_AFTER_FUND_MS]

decideFunding(priceWei, lf, fb, identity, walletBalWei, gasReserveWei, nowMs) ==
    LET amount == priceWei + computeBuffer(priceWei, FUND_BUFFER_BPS)
        cooldownMs == IF lastFundMatchesIdentity(lf, identity)
                      THEN lastFundCooldownRemaining(lf, FUND_COOLDOWN_MS, nowMs)
                      ELSE 0
    IN IF /\ fb # NoBlock
          /\ toLowerCase(fb.address) = toLowerCase(identity.address)
          /\ fb.until > nowMs
       THEN [action |-> "block", reason |-> "fund-block-active", amountWei |-> 0,
             retryWindowMs |-> 0]
       ELSE IF cooldownMs > 0
       THEN [action |-> "skip", reason |-> "cooldown", amountWei |-> 0,
             retryWindowMs |-> Max(RETRY_WITH_RECENT_FUND_MS, cooldownMs + 60000)]
       ELSE IF walletBalWei # NoBal /\ walletBalWei < amount + gasReserveWei
       THEN [action |-> "block", reason |-> "insufficient-balance",
             amountWei |-> amount, retryWindowMs |-> 0]
       ELSE [action |-> "fund", reason |-> "ok", amountWei |-> amount,
             retryWindowMs |-> RETRY_AFTER_FUND_MS]

(***************************************************************************)
(* irys_client_browser.js: upload                                          *)
(***************************************************************************)
\* latest time a poll timer fires when two upload() calls run together
MaxClock == 21000
\* latest time a poll timer fires when one upload() call runs alone
MaxPollClock == 200000
\* time that passes while no poll timer is pending, per step
ElapseMs == 7000
\* the same over the life of a fund block: the step, and the latest time
BlockElapseMs == 60000
MaxBlockClock == 240000

\* the one (node, token, address) of the session; the address is checksummed
Identity == [node |-> "node", token |-> "base", address |-> "0xAB"]
\* what estimateCost returns for the signed payload, in gwei; NoPrice: it failed
NoPrice == 0
Prices == {NoPrice, 25}
WalletBals == {NoBal, 20, 100000}
\* gasLimit * perGas * 12 / 10, or 0 when getFeeData failed
GasReserves == {0, 30}
PostOutcomes == {"200", "402", "500", "neterr"}

\* getFundBlock() reading nothing from localStorage
getFundBlockNone(fb, nowMs) == NoBlock

\* getFundBlock(): an expired block reads as null
getFundBlock(fb, nowMs) ==
    IF fb = NoBlock THEN NoBlock ELSE IF fb.until < nowMs THEN NoBlock ELSE fb

\* setFundBlock({address, reason})
setFundBlock(address, nowMs) ==
    [address |-> address, until |-> nowMs + INSUFF_FUNDS_COOLDOWN_MS]

ended(at, result) == [at EXCEPT !.pc = "done", !.result = result]

\* retryCommit(maxMs) up to its first setTimeout
retryCommitEnter(at, maxMs, nowMs) ==
    [at EXCEPT !.pc = "wait", !.polled = TRUE, !.start = nowMs,
               !.wake = nowMs + RETRY_INTERVAL_MS, !.maxMs = maxMs]

\* the handling of a decision with the payment step left out: 'fund' goes
\* straight to the poll loop
afterDecisionNoPayment(at, decision, nowMs) ==
    LET at1 == [at EXCEPT !.decision = decision.action, !.amount = decision.amountWei]
    IN IF decision.action = "block"
       THEN ended(at1, IF decision.reason = "fund-block-active"
                       THEN "base-insufficient-funds-recent"
                       ELSE "base-insufficient-funds")
       ELSE retryCommitEnter(at1, decision.retryWindowMs, nowMs)

\* `if (decision.action === 'block') ... if (decision.action === 'skip') ...`
\* and, for 'fund', on to fundOnChain
afterDecision(at, decision, nowMs) ==
    LET at1 == [at EXCEPT !.decision = decision.action, !.amount = decision.amountWei]
    IN IF decision.action = "block"
       THEN ended(at1, IF decision.reason = "fund-block-active"
                       THEN "base-insufficient-funds-recent"
                       ELSE "base-insufficient-funds")
       ELSE IF decision.action = "skip"
       THEN retryCommitEnter(at1, decision.retryWindowMs, nowMs)
       ELSE [at1 EXCEPT !.pc = "funding", !.maxMs = decision.retryWindowMs]

payment(kind, a, amount) ==
    [kind |-> kind, by |-> a, amount |-> amount, at |-> clock,
     polling |-> attempts[a].polled]

\* upload() is called; the flat protocol fee is sent before the first submit
\* (a failed or timed out fee send does not stop the upload)
UploadBegin(a, feeSent) ==
    /\ attempts[a].pc = "idle"
    /\ attempts' = [attempts EXCEPT ![a].pc = "post"]
    /\ payments' = IF FEE_ENABLED /\ FLAT_FEE_GWEI > 0 /\ feeSent
                   THEN Append(payments, payment("fee", a, FLAT_FEE_GWEI))
                   ELSE payments
    /\ UNCHANGED <<clock, lastFund, fundBlock>>

\* the first tryPost returns, and on 402 the funding decision is taken
FirstPost(a, outcome, price, walletBal, gasReserve) ==
    /\ attempts[a].pc = "post"
    /\ LET at == [attempts[a] EXCEPT !.first = outcome]
           decision == decideFunding(price, lastFund, getFundBlock(fundBlock, clock),
                                     Identity, walletBal, gasReserve, clock)
       IN /\ attempts' = [attempts EXCEPT ![a] =
                CASE outcome = "200" -> ended(at, "ok")
                  [] outcome = "neterr" -> ended(at, "network")
                  [] outcome = "500" -> ended(at, "upload-http")
                  [] OTHER -> IF price = NoPrice THEN ended(at, "price-failed")
                              ELSE afterDecision(at, decision, clock)]
          /\ fundBlock' = IF /\ outcome = "402" /\ price # NoPrice
                             /\ decision.reason = "insufficient-balance"
                          THEN setFundBlock(Identity.address, clock)
                          ELSE fundBlock
    /\ UNCHANGED <<clock, lastFund, payments>>

\* fundOnChain: signer.sendTransaction returns or throws
FundSend(a, outcome) ==
    /\ attempts[a].pc = "funding"
    /\ outcome \in {"sent", "insufficient", "error"}
    /\ payments' = IF outcome = "sent"
                   THEN Append(payments, payment("fund", a, attempts[a].amount))
                   ELSE payments
    /\ fundBlock' = IF outcome = "insufficient"
                    THEN setFundBlock(Identity.address, clock) ELSE fundBlock
    /\ attempts' = [attempts EXCEPT ![a] =
          CASE outcome = "sent" -> [@ EXCEPT !.pc = "confirming"]
            [] outcome = "insufficient" -> ended(@, "base-insufficient-funds")
            [] OTHER -> ended(@, "fund-error")]
    /\ UNCHANGED <<clock, lastFund>>

\* tx.wait(1) settles: recordLastFund, then retryCommit(decision.retryWindowMs)
FundConfirmed(a) ==
    /\ attempts[a].pc = "confirming"
    /\ lastFund' = [node |-> Identity.node, token |-> Identity.token,
                    address |-> Identity.address, at |-> clock]
    /\ attempts' = [attempts EXCEPT ![a] = retryCommitEnter(@, @.maxMs, clock)]
    /\ UNCHANGED <<clock, fundBlock, payments>>

waiting == {a \in Attempts : attempts[a].pc = "wait"}

\* one turn of retryCommit's loop: the timer fires and the payload is resubmitted
Retry(a, outcome, maxClock) ==
    /\ a \in waiting
    /\ \A b \in waiting : attempts[a].wake <= attempts[b].wake
    /\ attempts[a].wake <= maxClock
    /\ LET nowMs == Max(clock, attempts[a].wake)
           at == attempts[a]
       IN /\ clock' = nowMs
          /\ attempts' = [attempts EXCEPT ![a] =
                CASE outcome = "neterr" -> [at EXCEPT !.wake = nowMs + RETRY_INTERVAL_MS]
                  [] outcome = "200" -> ended(at, "ok")
                  [] outcome = "500" -> ended(at, "upload-http")
                  [] OTHER -> IF nowMs - at.start > at.maxMs
                              THEN ended(at, "post-fund-timeout")
                              ELSE [at EXCEPT !.wake = nowMs + RETRY_INTERVAL_MS]]
    /\ UNCHANGED <<lastFund, fundBlock, payments>>

\* time passes while no poll timer is pending
Elapse(maxClock) ==
    /\ waiting = {}
    /\ clock + ElapseMs <= maxClock
    /\ clock' = clock + ElapseMs
    /\ UNCHANGED <<lastFund, fundBlock, payments, attempts>>

otherThanUpload == <<arVars, storeVars, smVars, dfVars, callVars>>

InitUpload == ArIdle /\ StoreIdle /\ UploadIdle /\ SyncIdle /\ DecideIdle

NextUpload ==
    \/ \E a \in Attempts, feeSent \in BOOLEAN :
          UploadBegin(a, feeSent) /\ UNCHANGED otherThanUpload
    \/ \E a \in Attempts, outcome \in PostOutcomes, price \in Prices,
          walletBal \in WalletBals, gasReserve \in GasReserves :
          FirstPost(a, outcome, price, walletBal, gasReserve) /\ UNCHANGED otherThanUpload
    \/ \E a \in Attempts, outcome \in {"sent", "insufficient", "error"} :
          FundSend(a, outcome) /\ UNCHANGED otherThanUpload
    \/ \E a \in Attempts : FundConfirmed(a) /\ UNCHANGED otherThanUpload
    \/ \E a \in Attempts, outcome \in PostOutcomes :
          Retry(a, outcome, MaxClock) /\ UNCHANGED otherThanUpload
    \/ Elapse(MaxClock) /\ UNCHANGED otherThanUpload

SpecUpload == InitUpload /\ [][NextUpload]_vars

\* one upload() call alone, followed through its whole poll window
NextPoll ==
    \/ \E feeSent \in BOOLEAN : UploadBegin(1, feeSent) /\ UNCHANGED otherThanUpload
    \/ \E outcome \in PostOutcomes, price \in Prices,
          walletBal \in WalletBals, gasReserve \in GasReserves :
          FirstPost(1, outcome, price, walletBal, gasReserve) /\ UNCHANGED otherThanUpload
    \/ \E outcome \in {"sent", "insufficient", "error"} :
          FundSend(1, outcome) /\ UNCHANGED otherThanUpload
    \/ FundConfirmed(1) /\ UNCHANGED otherThanUpload
    \/ \E outcome \in PostOutcomes :
          Retry(1, outcome, MaxPollClock) /\ UNCHANGED otherThanUpload
    \/ Elapse(MaxPollClock) /\ UNCHANGED otherThanUpload

SpecPoll == InitUpload /\ [][NextPoll]_vars

(***************************************************************************)
(* Properties of the upload coordinator                                    *)
(***************************************************************************)
\* the on-chain transactions of the given kinds that upload() call a sent
paymentsBy(a, kinds) ==
    {i \in 1..Len(payments) : payments[i].by = a /\ payments[i].kind \in kinds}

\* C7: no two on-chain funding payments of the identity are sent less than the
\* funding cooldown (8 minutes) apart, whatever the interleaving of its uploads.
C7_FundingPaymentsCooldownApart ==
    \A i, j \in 1..Len(payments) :
        (i < j /\ payments[i].kind = "fund" /\ payments[j].kind = "fund")
        => payments[j].at - payments[i].at >= FUND_COOLDOWN_MS

\* what one upload attempt may have sent and done, given its first response
\* and its decision, counting the transactions of the given kinds
paymentsFollowDecision(a, kinds) ==
    LET at == attempts[a]
        sent == paymentsBy(a, kinds)
    IN /\ at.first = "200" => at.decision = "none" /\ sent = {}
       /\ at.decision # "none" => at.first = "402"
       /\ (at.decision = "fund" /\ at.polled) =>
              /\ Cardinality(sent) = 1
              /\ \A i \in sent : payments[i].amount = at.amount /\ ~payments[i].polling
       /\ at.decision = "skip" => at.polled /\ sent = {}
       /\ at.decision = "block" => ~at.polled /\ sent = {}

\* C8 as stated: 200: no decision and no on-chain payment; 'fund': exactly one
\* on-chain payment, of the decided amount, before polling starts; 'skip':
\* polling without any payment; 'block': neither payment nor polling.
C8_PaymentsFollowDecision ==
    \A a \in Attempts : paymentsFollowDecision(a, {"fee", "fund"})

\* C8, amended: the same for the funding payments, i.e. the on-chain payments
\* other than the flat protocol fee sent before every first submit; on 'fund'
\* at most one funding payment is sent, and an attempt whose payment could not
\* be sent ends with an error without polling.
C8_FundingPaymentsFollowDecision ==
    \A a \in Attempts :
        /\ paymentsFollowDecision(a, {"fund"})
        /\ Cardinality(paymentsBy(a, {"fund"})) <= 1
        /\ paymentsBy(a, {"fund"}) # {} => attempts[a].decision = "fund"
        /\ (attempts[a].decision = "fund" /\ attempts[a].pc = "done"
            /\ paymentsBy(a, {"fund"}) = {})
           => ~attempts[a].polled /\ attempts[a].result # "ok"

\* an attempt that paid the protocol fee, decided 'fund', sent its one funding
\* payment and is polling
C8_Witness ==
    \E a \in Attempts :
        /\ attempts[a].decision = "fund" /\ attempts[a].polled
        /\ paymentsBy(a, {"fee"}) # {}
        /\ paymentsBy(a, {"fund"}) # {}

\* C9: the poll loop has ended, at the latest, one poll interval after its
\* retry window has elapsed, whatever the resubmissions returned.
C9_PollLoopEnds ==
    \A a \in Attempts :
        attempts[a].pc = "wait" =>
            clock <= attempts[a].start + attempts[a].maxMs + RETRY_INTERVAL_MS

(***************************************************************************)
(* sync_manager.js                                                         *)
(***************************************************************************)
INTERVAL_ACTIVE_MS == 30000
INTERVAL_COOLING_MS == 60000
INTERVAL_IDLE_MS == 300000
ACTIVE_WINDOW_MS == 120000
COOLING_WINDOW_MS == 300000
BALANCE_THROTTLE_MS == 300000

\* what getWalletBalance resolves to; NoBalance stands for its throw
BalancesETH == {NoBalance, "0.001"}

\* computeSyncInterval without its `dirtyFlag ||`
computeSyncIntervalNoDirty(nowMs, lastWrite, dirty) ==
    LET elapsed == nowMs - lastWrite
    IN IF lastWrite > 0 /\ elapsed < ACTIVE_WINDOW_MS THEN INTERVAL_ACTIVE_MS
       ELSE IF lastWrite > 0 /\ elapsed < COOLING_WINDOW_MS THEN INTERVAL_COOLING_MS
       ELSE INTERVAL_IDLE_MS

\* computeSyncInterval with `<=` for the `<` of the cooling window
computeSyncIntervalCoolingInclusive(nowMs, lastWrite, dirty) ==
    LET elapsed == nowMs - lastWrite
    IN IF dirty \/ (lastWrite > 0 /\ elapsed < ACTIVE_WINDOW_MS) THEN INTERVAL_ACTIVE_MS
       ELSE IF lastWrite > 0 /\ elapsed <= COOLING_WINDOW_MS THEN INTERVAL_COOLING_MS
       ELSE INTERVAL_IDLE_MS

computeSyncInterval(nowMs, lastWrite, dirty) ==
    LET elapsed == nowMs - lastWrite
    IN IF dirty \/ (lastWrite > 0 /\ elapsed < ACTIVE_WINDOW_MS) THEN INTERVAL_ACTIVE_MS
       ELSE IF lastWrite > 0 /\ elapsed < COOLING_WINDOW_MS THEN INTERVAL_COOLING_MS
       ELSE INTERVAL_IDLE_MS

\* the module state a runSyncCycle call reads and writes
schedState ==
    [isSyncing |-> isSyncing, dirtyFlag |-> dirtyFlag, lastWriteAt |-> lastWriteAt,
     forceBalanceCheck |-> forceBalanceCheck, syncCycleCount |-> syncCycleCount,
     cycles |-> cycles, started |-> FALSE]

\* a cycle at its first await (getWalletInfoCallback of the balance check);
\* by and dirtied record who called it and whether markDirty ran since
newCycle(cs) ==
    [id |-> CHOOSE n \in 1..(Cardinality(cs) + 1) : \A c \in cs : c.id # n,
     stage |-> "wallet", now |-> 0, by |-> "loop", dirtied |-> FALSE]

\* runSyncCycle without its `if (isSyncing) return`
runSyncCycleNoGuard(st) ==
    [st EXCEPT !.syncCycleCount = @ + 1, !.isSyncing = TRUE, !.dirtyFlag = FALSE,
               !.cycles = @ \cup {newCycle(@)}, !.started = TRUE]

\* runSyncCycle up to its first await: the count, the guard, and the flags
runSyncCycle(st) ==
    IF st.isSyncing
    THEN [st EXCEPT !.syncCycleCount = @ + 1]
    ELSE [st EXCEPT !.syncCycleCount = @ + 1, !.isSyncing = TRUE, !.dirtyFlag = FALSE,
                    !.cycles = @ \cup {newCycle(@)}, !.started = TRUE]

\* syncInterval = setTimeout(syncLoop, delay): a handle no pending timer has
newTimer(tms, delay) ==
    [id |-> CHOOSE n \in 1..(Cardinality(tms) + 2) :
                n # syncInterval /\ \A t \in tms : t.id # n,
     at |-> smNow + delay]

\* a caller of runSyncCycle: st is the module state at the call, tms the
\* pending timers, si the handle, by the caller; a call that returns at once
\* is followed by the caller's setTimeout
callRunSyncCycle(st, tms, si, by) ==
    LET r == runSyncCycle(st)
        t == newTimer(tms, computeSyncInterval(smNow, r.lastWriteAt, r.dirtyFlag))
    IN /\ isSyncing' = r.isSyncing
       /\ dirtyFlag' = r.dirtyFlag
       /\ lastWriteAt' = r.lastWriteAt
       /\ forceBalanceCheck' = r.forceBalanceCheck
       /\ syncCycleCount' = r.syncCycleCount
       /\ cycles' = {IF c \in st.cycles THEN c ELSE [c EXCEPT !.by = by] : c \in r.cycles}
       /\ timers' = IF r.started THEN tms ELSE tms \cup {t}
       /\ syncInterval' = IF r.started THEN si ELSE t.id
       /\ smHist' = [op |-> IF r.started THEN "started" ELSE "dropped", at |-> st,
                     by |-> by]

startSync ==
    /\ Cardinality(timers) + Cardinality(cycles) < MaxLoops
    /\ IF syncInterval # NoTimer
       THEN /\ smHist' = [op |-> "none"]
            /\ UNCHANGED <<isSyncing, dirtyFlag, lastWriteAt, forceBalanceCheck,
                           syncCycleCount, cycles, timers, syncInterval>>
       ELSE /\ syncCycleCount < MaxCycles
            /\ callRunSyncCycle([schedState EXCEPT !.lastWriteAt = smNow],
                                timers, syncInterval, "loop")
    /\ UNCHANGED <<smNow, lastBalanceCheckAt, currentBalanceETH, checks, forceRequested>>

stopSync ==
    /\ syncInterval # NoTimer
    /\ timers' = {t \in timers : t.id # syncInterval}
    /\ syncInterval' = NoTimer
    /\ smHist' = [op |-> "none"]
    /\ UNCHANGED <<smNow, isSyncing, dirtyFlag, lastWriteAt, forceBalanceCheck,
                   syncCycleCount, lastBalanceCheckAt, currentBalanceETH, cycles,
                   checks, forceRequested>>

markDirty ==
    /\ dirtyFlag' = TRUE
    /\ lastWriteAt' = smNow
    /\ cycles' = {[c EXCEPT !.dirtied = TRUE] : c \in cycles}
    /\ smHist' = [op |-> "none"]
    /\ UNCHANGED <<smNow, isSyncing, forceBalanceCheck, syncCycleCount,
                   lastBalanceCheckAt, currentBalanceETH, syncInterval, timers,
                   checks, forceRequested>>

triggerSyncNow ==
    /\ forceRequested' = TRUE
    /\ IF isSyncing
       THEN /\ lastWriteAt' = smNow /\ dirtyFlag' = TRUE /\ forceBalanceCheck' = TRUE
            /\ smHist' = [op |-> "busy", cycles |-> cycles, timers |-> timers]
            /\ UNCHANGED <<isSyncing, syncCycleCount, cycles, timers, syncInterval>>
       ELSE /\ syncCycleCount < MaxCycles
            /\ callRunSyncCycle([schedState EXCEPT !.lastWriteAt = smNow,
                                                   !.dirtyFlag = TRUE,
                                                   !.forceBalanceCheck = TRUE],
                                {t \in timers : t.id # syncInterval}, NoTimer, "syncNow")
    /\ UNCHANGED <<smNow, lastBalanceCheckAt, currentBalanceETH, checks>>

\* a pending setTimeout(syncLoop, delay) fires
TimerFire(t) ==
    /\ t \in timers /\ t.at <= smNow
    /\ syncCycleCount < MaxCycles
    /\ callRunSyncCycle(schedState, timers \ {t}, syncInterval, "loop")
    /\ UNCHANGED <<smNow, lastBalanceCheckAt, currentBalanceETH, checks, forceRequested>>

\* the throttle test without `!forceBalanceCheck`
canThrottleNoForce(confirmed, force, cached, nowMs, lastCheckAt) ==
    /\ confirmed
    /\ cached # NoBalance
    /\ nowMs - lastCheckAt < BALANCE_THROTTLE_MS

\* the throttle test of checkBalanceAndAutoPersist
canThrottle(confirmed, force, cached, nowMs, lastCheckAt) ==
    /\ confirmed
    /\ ~force
    /\ cached # NoBalance
    /\ nowMs - lastCheckAt < BALANCE_THROTTLE_MS

\* checkBalanceAndAutoPersist from the wallet info to the throttle decision:
\* "aborted" without a wallet address, "throttled", or "querying" with
\* getWalletBalance in flight
balanceOutcome(hasWallet, confirmed) ==
    IF ~hasWallet THEN "aborted"
    ELSE IF canThrottle(confirmed, forceBalanceCheck, currentBalanceETH, smNow,
                        lastBalanceCheckAt)
         THEN "throttled"
         ELSE "querying"

\* what a balance check leaves in the history: its outcome and what it saw
balanceDecided(hasWallet, confirmed, by) ==
    /\ smHist' = [op |-> "balance", outcome |-> balanceOutcome(hasWallet, confirmed),
                  by |-> by, confirmed |-> confirmed, force |-> forceBalanceCheck,
                  cached |-> currentBalanceETH # NoBalance,
                  recent |-> smNow - lastBalanceCheckAt < BALANCE_THROTTLE_MS,
                  requested |-> forceRequested]
    /\ forceRequested' = IF hasWallet THEN FALSE ELSE forceRequested

\* getWalletBalance settled: the assignments after it, or its throw
balanceQueried(nowMs, balanceETH) ==
    /\ IF balanceETH # NoBalance
       THEN /\ currentBalanceETH' = balanceETH
            /\ lastBalanceCheckAt' = nowMs
            /\ forceBalanceCheck' = FALSE
       ELSE UNCHANGED <<currentBalanceETH, lastBalanceCheckAt, forceBalanceCheck>>
    /\ smHist' = [op |-> "queried", ok |-> balanceETH # NoBalance]

\* checkBalanceAndAutoPersist of the running cycle, to its throttle decision
CycleBalance(c, hasWallet, confirmed) ==
    /\ c \in cycles /\ c.stage = "wallet"
    /\ cycles' = (cycles \ {c}) \cup
                 {IF balanceOutcome(hasWallet, confirmed) = "querying"
                  THEN [c EXCEPT !.stage = "rpc", !.now = smNow]
                  ELSE [c EXCEPT !.stage = "books"]}
    /\ balanceDecided(hasWallet, confirmed, "cycle")
    /\ UNCHANGED <<smNow, isSyncing, dirtyFlag, lastWriteAt, syncCycleCount,
                   syncInterval, timers, currentBalanceETH, lastBalanceCheckAt,
                   forceBalanceCheck, checks>>

\* the running cycle's getWalletBalance settled
CycleBalanceDone(c, balanceETH) ==
    /\ c \in cycles /\ c.stage = "rpc"
    /\ cycles' = (cycles \ {c}) \cup {[c EXCEPT !.stage = "books", !.now = 0]}
    /\ balanceQueried(c.now, balanceETH)
    /\ UNCHANGED <<smNow, isSyncing, dirtyFlag, lastWriteAt, syncCycleCount,
                   syncInterval, timers, checks, forceRequested>>

\* bookSyncCallback settled: `finally { isSyncing = false }`, then the caller's
\* computeSyncInterval and setTimeout
CycleEnd(c) ==
    /\ c \in cycles /\ c.stage = "books"
    /\ cycles' = cycles \ {c}
    /\ isSyncing' = FALSE
    /\ LET delay == computeSyncInterval(smNow, lastWriteAt, dirtyFlag)
           t == newTimer(timers, delay)
       IN /\ timers' = timers \cup {t} /\ syncInterval' = t.id
          /\ smHist' = [op |-> "ended", by |-> c.by, dirtied |-> c.dirtied,
                        delay |-> delay]
    /\ UNCHANGED <<smNow, dirtyFlag, lastWriteAt, forceBalanceCheck, syncCycleCount,
                   lastBalanceCheckAt, currentBalanceETH, checks, forceRequested>>

\* triggerPersistenceCheck: the flag, and a balance check outside any cycle
triggerPersistenceCheck ==
    /\ Cardinality(checks) < MaxChecks
    /\ forceBalanceCheck' = TRUE
    /\ forceRequested' = TRUE
    /\ checks' = checks \cup
                 {[id |-> CHOOSE n \in 1..(Cardinality(checks) + 1) :
                              \A k \in checks : k.id # n,
                   stage |-> "wallet", now |-> 0]}
    /\ smHist' = [op |-> "none"]
    /\ UNCHANGED <<smNow, isSyncing, dirtyFlag, lastWriteAt, syncCycleCount,
                   lastBalanceCheckAt, currentBalanceETH, syncInterval, timers, cycles>>

\* the balance check of triggerPersistenceCheck, to its throttle decision
CheckBalance(k, hasWallet, confirmed) ==
    /\ k \in checks /\ k.stage = "wallet"
    /\ checks' = (checks \ {k}) \cup
                 (IF balanceOutcome(hasWallet, confirmed) = "querying"
                  THEN {[k EXCEPT !.stage = "rpc", !.now = smNow]}
                  ELSE {})
    /\ balanceDecided(hasWallet, confirmed, "check")
    /\ UNCHANGED <<smNow, isSyncing, dirtyFlag, lastWriteAt, syncCycleCount,
                   syncInterval, timers, currentBalanceETH, lastBalanceCheckAt,
                   forceBalanceCheck, cycles>>

\* its getWalletBalance settled
CheckBalanceDone(k, balanceETH) ==
    /\ k \in checks /\ k.stage = "rpc"
    /\ checks' = checks \ {k}
    /\ balanceQueried(k.now, balanceETH)
    /\ UNCHANGED <<smNow, isSyncing, dirtyFlag, lastWriteAt, syncCycleCount,
                   syncInterval, timers, cycles, forceRequested>>

\* time passes; a timer that is due fires first
Tick ==
    /\ smNow + TickMs <= MaxSyncClock
    /\ \A t \in timers : t.at > smNow
    /\ smNow' = smNow + TickMs
    /\ smHist' = [op |-> "none"]
    /\ UNCHANGED <<isSyncing, dirtyFlag, lastWriteAt, forceBalanceCheck, syncCycleCount,
                   lastBalanceCheckAt, currentBalanceETH, syncInterval, timers, cycles,
                   checks, forceRequested>>

otherThanSync == <<arVars, storeVars, upVars, dfVars, callVars>>

InitSync == ArIdle /\ StoreIdle /\ UploadIdle /\ SyncIdle /\ DecideIdle

NextSync ==
    \/ startSync /\ UNCHANGED otherThanSync
    \/ stopSync /\ UNCHANGED otherThanSync
    \/ markDirty /\ UNCHANGED otherThanSync
    \/ triggerSyncNow /\ UNCHANGED otherThanSync
    \/ \E t \in timers : TimerFire(t) /\ UNCHANGED otherThanSync
    \/ \E c \in cycles, hasWallet \in BOOLEAN, confirmed \in BOOLEAN :
          CycleBalance(c, hasWallet, confirmed) /\ UNCHANGED otherThanSync
    \/ \E c \in cycles, balanceETH \in BalancesETH :
          CycleBalanceDone(c, balanceETH) /\ UNCHANGED otherThanSync
    \/ \E c \in cycles : CycleEnd(c) /\ UNCHANGED otherThanSync
    \/ Tick /\ UNCHANGED otherThanSync

SpecSync == InitSync /\ [][NextSync]_vars

\* the balance checks over the length of the throttle window: manual triggers
\* only, and a clock that advances in steps of SlowTickMs (a timer fires at
\* the first step at or after its deadline)
SlowTick ==
    /\ smNow + SlowTickMs <= MaxBalanceClock
    /\ \A t \in timers : t.at > smNow
    /\ smNow' = smNow + SlowTickMs
    /\ smHist' = [op |-> "none"]
    /\ UNCHANGED <<isSyncing, dirtyFlag, lastWriteAt, forceBalanceCheck, syncCycleCount,
                   lastBalanceCheckAt, currentBalanceETH, syncInterval, timers, cycles,
                   checks, forceRequested>>

NextBalance ==
    \/ triggerSyncNow /\ UNCHANGED otherThanSync
    \/ triggerPersistenceCheck /\ UNCHANGED otherThanSync
    \/ \E t \in timers : TimerFire(t) /\ UNCHANGED otherThanSync
    \/ \E c \in cycles, hasWallet \in BOOLEAN, confirmed \in BOOLEAN :
          CycleBalance(c, hasWallet, confirmed) /\ UNCHANGED otherThanSync
    \/ \E c \in cycles, balanceETH \in BalancesETH :
          CycleBalanceDone(c, balanceETH) /\ UNCHANGED otherThanSync
    \/ \E k \in checks, hasWallet \in BOOLEAN, confirmed \in BOOLEAN :
          CheckBalance(k, hasWallet, confirmed) /\ UNCHANGED otherThanSync
    \/ \E k \in checks, balanceETH \in BalancesETH :
          CheckBalanceDone(k, balanceETH) /\ UNCHANGED otherThanSync
    \/ \E c \in cycles : CycleEnd(c) /\ UNCHANGED otherThanSync
    \/ SlowTick /\ UNCHANGED otherThanSync

SpecBalance == InitSync /\ [][NextBalance]_vars

\* C10: at most one sync cycle is in flight, a runSyncCycle call starts a cycle
\* only when none is in flight, and a call made while one is in flight starts
\* no balance check or book sync and leaves dirtyFlag, lastWriteAt,
\* forceBalanceCheck and isSyncing as they were at the call.
C10_CyclesMutuallyExclusive ==
    /\ Cardinality(cycles) <= 1
    /\ isSyncing <=> cycles # {}
    /\ smHist.op = "started" => ~smHist.at.isSyncing /\ smHist.at.cycles = {}
    /\ smHist.op = "dropped" =>
          /\ smHist.at.isSyncing
          /\ cycles = smHist.at.cycles
          /\ isSyncing = smHist.at.isSyncing
          /\ dirtyFlag = smHist.at.dirtyFlag
          /\ lastWriteAt = smHist.at.lastWriteAt
          /\ forceBalanceCheck = smHist.at.forceBalanceCheck

\* a loop's timer fired while a cycle started by another caller was in flight,
\* with the dirty flag set since that cycle began
C10_Witness ==
    /\ smHist.op = "dropped"
    /\ cycles # {}
    /\ dirtyFlag

\* C11: when markDirty ran while a cycle was in flight, the delay computed at
\* the end of that cycle for the next scheduled cycle is the Active interval,
\* however long the cycle took.
C11_DirtyDuringCycleKeepsActive ==
    (smHist.op = "ended" /\ smHist.dirtied) => smHist.delay = INTERVAL_ACTIVE_MS

\* a cycle ended whose write is older than the active window: only the dirty
\* flag keeps the interval Active
C11_Witness ==
    /\ smHist.op = "ended" /\ smHist.dirtied
    /\ smNow - lastWriteAt >= ACTIVE_WINDOW_MS
    /\ smHist.delay = INTERVAL_ACTIVE_MS

\* C12: triggerSyncNow with no cycle in flight leaves no scheduled timer
\* pending and starts a cycle at once; with a cycle in flight it leaves that
\* cycle running and starts no second one.
C12_SyncNowCancelsAndStarts ==
    /\ (smHist.op \in {"started", "dropped"} /\ smHist.by = "syncNow") =>
          /\ smHist.op = "started"
          /\ Cardinality(cycles) = 1
          /\ timers = {}
    /\ smHist.op = "busy" =>
          /\ cycles = smHist.cycles
          /\ Cardinality(cycles) = 1
          /\ timers = smHist.timers

\* C13: the delay scheduled at the end of the cycle that triggerSyncNow forced
\* is the Active interval, however long that cycle took.
C13_AfterForcedCycleActive ==
    (smHist.op = "ended" /\ smHist.by = "syncNow") => smHist.delay = INTERVAL_ACTIVE_MS

\* C14: after triggerSyncNow or triggerPersistenceCheck, the next balance check
\* that reaches its throttle decision performs a real query, also when the
\* account is confirmed and the previous query is less than five minutes old;
\* and the force flag is cleared only by a check whose query returned, never
\* by a throttled or aborted one.
C14_ForcedCheckQueries ==
    [][/\ (smHist'.op = "balance" /\ smHist'.requested /\ smHist'.outcome # "aborted")
            => smHist'.outcome = "querying"
       /\ (forceBalanceCheck /\ ~forceBalanceCheck')
            => (smHist'.op = "queried" /\ smHist'.ok)]_vars

\* C15: a balance check with a wallet address skips the query exactly when the
\* account is confirmed, no forced check is pending, a cached balance exists
\* and the last query is less than five minutes old; otherwise, and so
\* whenever the account is local, it performs the query.
C15_ThrottleExactly ==
    (smHist.op = "balance" /\ smHist.outcome # "aborted") =>
        /\ smHist.outcome \in {"throttled", "querying"}
        /\ smHist.outcome = "throttled" <=>
              (smHist.confirmed /\ ~smHist.force /\ smHist.cached /\ smHist.recent)
        /\ ~smHist.confirmed => smHist.outcome = "querying"

\* a confirmed account with a cached balance and no force flag whose last
\* query is five minutes old: the check queries again
C15_Witness ==
    /\ smHist.op = "balance" /\ smHist.outcome = "querying"
    /\ smHist.confirmed /\ ~smHist.force /\ smHist.cached /\ ~smHist.recent

(***************************************************************************)
(* The pure decideFunding on drawn arguments                               *)
(***************************************************************************)
\* nowMs of the calls
DfNow == 600000

\* priceWei: zero, prices below and at one buffer unit, an odd price, and the
\* price of the documented example
DfPrices == {0, 1, 9, 10, 25, 1000000}

\* lastFund: none, or a record of any node, token and address, funded before,
\* at and after the start of the cooldown window that ends at DfNow
DfLastFunds ==
    {NoFund} \cup
    [node : {Identity.node, "other"}, token : {Identity.token, "eth"},
     address : {"0xAB", "0xab", "0xCD"},
     at : {DfNow - FUND_COOLDOWN_MS - 1, DfNow - FUND_COOLDOWN_MS,
           DfNow - FUND_COOLDOWN_MS + 1, DfNow - 1, DfNow + 1000}]

\* fundBlock: none, or a block of any address expiring before, at or after DfNow
DfFundBlocks ==
    {NoBlock} \cup
    [address : {"0xAB", "0xab", "0xCD"},
     until : {DfNow - 1, DfNow, DfNow + 1, DfNow + INSUFF_FUNDS_COOLDOWN_MS}]

\* walletBalWei: not supplied, or a balance around the totals of the prices
DfWalletBals == {NoBal, 0, 26, 27, 56, 57, 1100000}

DfArgs ==
    [priceWei : DfPrices, lastFund : DfLastFunds, fundBlock : DfFundBlocks,
     identity : {Identity}, walletBalWei : DfWalletBals,
     gasReserveWei : GasReserves, nowMs : {DfNow}]

InitDecide ==
    /\ ArIdle /\ StoreIdle /\ UploadIdle /\ SyncIdle
    /\ callArgs = NoArgs /\ callResult = NoResult /\ HandlersIdle
    /\ dfArgs \in DfArgs
    /\ dfResult = NoDecision

\* one call of the pure function on the drawn arguments
CallDecideFunding ==
    /\ dfResult = NoDecision
    /\ dfResult' = decideFunding(dfArgs.priceWei, dfArgs.lastFund, dfArgs.fundBlock,
                                 dfArgs.identity, dfArgs.walletBalWei,
                                 dfArgs.gasReserveWei, dfArgs.nowMs)
    /\ UNCHANGED <<dfArgs, arVars, storeVars, upVars, smVars, callVars>>

NextDecide == CallDecideFunding

SpecDecide == InitDecide /\ [][NextDecide]_vars

\* the call was made
dfCalled == dfResult # NoDecision

\* the arguments hold a fund block of the identity's address that has not expired
dfBlockActive ==
    /\ dfArgs.fundBlock # NoBlock
    /\ toLowerCase(dfArgs.fundBlock.address) = toLowerCase(dfArgs.identity.address)
    /\ dfArgs.fundBlock.until > dfArgs.nowMs

\* the arguments hold a lastFund of the identity made less than the cooldown ago
dfInCooldown ==
    /\ dfArgs.lastFund # NoFund
    /\ dfArgs.lastFund.node = dfArgs.identity.node
    /\ dfArgs.lastFund.token = dfArgs.identity.token
    /\ toLowerCase(dfArgs.lastFund.address) = toLowerCase(dfArgs.identity.address)
    /\ dfArgs.nowMs - dfArgs.lastFund.at < FUND_COOLDOWN_MS

\* the supplied balance is below price + buffer + gas reserve
dfInsufficient ==
    /\ dfArgs.walletBalWei # NoBal
    /\ dfArgs.walletBalWei <
          dfArgs.priceWei + (dfArgs.priceWei * FUND_BUFFER_BPS) \div 10000
            + dfArgs.gasReserveWei

\* C16: decideFunding returns block / fund-block-active whenever the fundBlock
\* is for the identity's address and its until is later than now, for every
\* price, lastFund and wallet balance.
C16_ActiveFundBlockBlocks ==
    (dfCalled /\ dfBlockActive) =>
        (dfResult.action = "block" /\ dfResult.reason = "fund-block-active")

\* an active block written in another letter case, with a lastFund inside its
\* cooldown and a balance that is too small
C16_Witness ==
    /\ dfCalled /\ dfBlockActive /\ dfInCooldown /\ dfInsufficient
    /\ dfArgs.fundBlock.address # dfArgs.identity.address
    /\ dfResult.reason = "fund-block-active"

\* C17: with no active fund block, decideFunding returns skip whenever lastFund
\* matches the identity and is younger than the cooldown, for every wallet
\* balance, with a retry window of at least RETRY_WITH_RECENT_FUND_MS and at
\* least the remaining cooldown.
C17_CooldownSkips ==
    (dfCalled /\ ~dfBlockActive /\ dfInCooldown) =>
        /\ dfResult.action = "skip"
        /\ dfResult.retryWindowMs >= RETRY_WITH_RECENT_FUND_MS
        /\ dfResult.retryWindowMs >=
              dfArgs.lastFund.at + FUND_COOLDOWN_MS - dfArgs.nowMs

\* a skip with a balance that is too small, a lastFund address in another
\* letter case, and a retry window set by the remaining cooldown
C17_Witness ==
    /\ dfCalled /\ ~dfBlockActive /\ dfInCooldown /\ dfInsufficient
    /\ dfArgs.lastFund.address # dfArgs.identity.address
    /\ dfResult.action = "skip"
    /\ dfResult.retryWindowMs > RETRY_WITH_RECENT_FUND_MS

\* C18: with neither an active fund block nor a cooldown, decideFunding returns
\* block / insufficient-balance exactly when a balance is supplied and is
\* below price + buffer + gas reserve, and fund in every other case.
C18_BalancePrecheck ==
    (dfCalled /\ ~dfBlockActive /\ ~dfInCooldown) =>
        IF dfInsufficient
        THEN dfResult.action = "block" /\ dfResult.reason = "insufficient-balance"
        ELSE dfResult.action = "fund"

\* a balance of exactly price + buffer + gas reserve funds
C18_Witness ==
    /\ dfCalled /\ ~dfBlockActive /\ ~dfInCooldown
    /\ dfArgs.walletBalWei # NoBal /\ dfArgs.gasReserveWei > 0
    /\ dfArgs.walletBalWei =
          dfArgs.priceWei + (dfArgs.priceWei * FUND_BUFFER_BPS) \div 10000
            + dfArgs.gasReserveWei
    /\ dfResult.action = "fund"

\* C19: the amount of a fund decision is price + ceil(price * 1000 / 10000).
C19_AmountIsPricePlusCeilBuffer ==
    (dfCalled /\ dfResult.action = "fund") =>
        dfResult.amountWei =
            dfArgs.priceWei + (dfArgs.priceWei * FUND_BUFFER_BPS + 9999) \div 10000

(***************************************************************************)
(* Uploads over the life of a fund block                                   *)
(***************************************************************************)
\* time passes between upload() calls, in steps of BlockElapseMs
ElapseBlock ==
    /\ waiting = {}
    /\ clock + BlockElapseMs <= MaxBlockClock
    /\ clock' = clock + BlockElapseMs
    /\ UNCHANGED <<lastFund, fundBlock, payments, attempts>>

\* the upload() calls of one identity, minutes apart or together; poll loops
\* are followed to MaxClock
NextFundBlock ==
    \/ \E a \in Attempts, feeSent \in BOOLEAN :
          UploadBegin(a, feeSent) /\ UNCHANGED otherThanUpload
    \/ \E a \in Attempts, outcome \in PostOutcomes, price \in Prices,
          walletBal \in WalletBals, gasReserve \in GasReserves :
          FirstPost(a, outcome, price, walletBal, gasReserve) /\ UNCHANGED otherThanUpload
    \/ \E a \in Attempts, outcome \in {"sent", "insufficient", "error"} :
          FundSend(a, outcome) /\ UNCHANGED otherThanUpload
    \/ \E a \in Attempts : FundConfirmed(a) /\ UNCHANGED otherThanUpload
    \/ \E a \in Attempts, outcome \in PostOutcomes :
          Retry(a, outcome, MaxClock) /\ UNCHANGED otherThanUpload
    \/ ElapseBlock /\ UNCHANGED otherThanUpload

SpecFundBlock == InitUpload /\ [][NextFundBlock]_vars

\* this step is attempt a's first submit returning 402
firstPost402(a) == attempts[a].pc = "post" /\ attempts'[a].first = "402"

\* this step ends attempt a for insufficient on-chain balance
blockedInsufficient(a) ==
    attempts[a].result = "none" /\ attempts'[a].result = "base-insufficient-funds"

\* C20 as stated: an attempt blocked for insufficient balance stores a fund
\* block of the address for 3 minutes; every attempt that receives 402 before
\* the block expires ends with base-insufficient-funds-recent, has sent no
\* payment and leaves the expiry as it is; after the expiry the block does not
\* prevent funding.
C20_FundBlockHolds ==
    [][\A a \in Attempts :
        /\ blockedInsufficient(a) =>
              fundBlock' = [address |-> Identity.address,
                            until |-> clock + INSUFF_FUNDS_COOLDOWN_MS]
        /\ (firstPost402(a) /\ fundBlock # NoBlock /\ clock < fundBlock.until) =>
              /\ attempts'[a].result = "base-insufficient-funds-recent"
              /\ paymentsBy(a, {"fee", "fund"})' = {}
              /\ fundBlock' = fundBlock
        /\ (firstPost402(a) /\ fundBlock # NoBlock /\ clock >= fundBlock.until) =>
              attempts'[a].result # "base-insufficient-funds-recent"]_vars

\* C20, amended: the same for an attempt whose price estimate succeeds (one
\* whose estimate fails ends with price-failed), counting the funding payments
\* and not the flat protocol fee sent before its first submit.
C20_FundBlockHoldsForPricedAttempts ==
    [][\A a \in Attempts :
        /\ blockedInsufficient(a) =>
              fundBlock' = [address |-> Identity.address,
                            until |-> clock + INSUFF_FUNDS_COOLDOWN_MS]
        /\ (firstPost402(a) /\ fundBlock # NoBlock /\ clock < fundBlock.until) =>
              /\ attempts'[a].pc = "done"
              /\ attempts'[a].result \in {"base-insufficient-funds-recent", "price-failed"}
              /\ paymentsBy(a, {"fund"})' = {}
              /\ payments' = payments
              /\ fundBlock' = fundBlock
        /\ (firstPost402(a) /\ fundBlock # NoBlock /\ clock >= fundBlock.until) =>
              attempts'[a].result # "base-insufficient-funds-recent"]_vars

\* an attempt was refused two minutes into a fund block that another attempt
\* had stored, and the other attempt's block still has its first expiry
C20_Witness ==
    \E a, b \in Attempts :
        /\ attempts[b].result = "base-insufficient-funds"
        /\ attempts[a].result = "base-insufficient-funds-recent"
        /\ fundBlock # NoBlock
        /\ clock = fundBlock.until - INSUFF_FUNDS_COOLDOWN_MS + 2 * BlockElapseMs

(***************************************************************************)
(* The store under writes of different contents                            *)
(***************************************************************************)
\* the semantic fields (title|author|edition|format|dateRead) of the payloads
EditContents == {"a", "b"}

\* creates, edits and reconciliation passes of one device; every record of
\* a pass decrypts, and a failed upload is a network error
NextContent ==
    \/ Login /\ UNCHANGED otherThanStore
    \/ \E c \in EditContents : CreateBegin(c) /\ UNCHANGED otherThanStore
    \/ \E op \in inflight : LedgerAccept(op) /\ UNCHANGED otherThanStore
    \/ \E op \in inflight : CreateComplete(op) /\ UNCHANGED otherThanStore
    \/ \E op \in inflight, code \in {"network"} : CreateFail(op, code) /\ UNCHANGED otherThanStore
    \/ \E o \in Obj, c \in EditContents : EditBegin(o, c) /\ UNCHANGED otherThanStore
    \/ \E op \in inflight : EditComplete(op) /\ UNCHANGED otherThanStore
    \/ \E op \in inflight, code \in {"network"} : EditFail(op, code) /\ UNCHANGED otherThanStore
    \/ SyncStart /\ UNCHANGED otherThanStore
    \/ SyncFetchFail /\ UNCHANGED otherThanStore
    \/ \E edges \in SUBSET Txids : SyncApply(edges, {}) /\ UNCHANGED otherThanStore

SpecContent == InitStore /\ [][NextContent]_vars

\* C21: every stored entry's contentHash is computeContentHash of the entry's
\* current semantic fields.
C21_StoredHashMatchesFields ==
    \A e \in store : e.contentHash = computeContentHash(e.content)

(***************************************************************************)
(* The pure applyRemote on remote entries that declare a contentHash       *)
(***************************************************************************)
\* a contentHash field on the remote entry: absent, the hash of "a", or a
\* value that is the hash of no content
DeclaredHashes == {NoHash, computeContentHash("a"), <<"sha256", "forged">>}

HashRemoteEntries ==
    [txid : ArTxids, prevTxid : {NoTx} \cup ArTxids, content : EditContents,
     contentHash : DeclaredHashes]

HashRemoteLists ==
    {l \in SeqsUpTo(HashRemoteEntries, MaxArLen) :
        \A i, j \in 1..Len(l) : l[i].txid = l[j].txid => l[i] = l[j]}

InitRemoteHash ==
    /\ StoreIdle /\ UploadIdle /\ SyncIdle /\ DecideIdle
    /\ arRemote \in HashRemoteLists
    /\ arTombs \in SeqsUpTo(ArTombstones, MaxSideLen)
    /\ arLocal \in {l \in ArLocalLists : Len(l) <= MaxSideLen}
    /\ arResult = NoResult

SpecRemoteHash == InitRemoteHash /\ [][NextApplyRemote]_vars

\* the same remote list with no contentHash declared
withoutDeclaredHash(remoteList) ==
    [i \in 1..Len(remoteList) |-> [remoteList[i] EXCEPT !.contentHash = NoHash]]

\* C22: the result of applyRemote does not depend on the contentHash values
\* the remote entries declare, and every entry in toAdd and toReplace carries
\* the hash of its own semantic fields.
C22_RemoteHashNotTrusted ==
    arResult # NoResult =>
        /\ arResult = coreApplyRemote(withoutDeclaredHash(arRemote), arTombs, arLocal)
        /\ \A i \in 1..Len(arResult.toAdd) :
              arResult.toAdd[i].contentHash = computeContentHash(arResult.toAdd[i].content)
        /\ \A i \in 1..Len(arResult.toReplace) :
              arResult.toReplace[i].entry.contentHash =
                  computeContentHash(arResult.toReplace[i].entry.content)

\* a remote entry declaring a hash that is not the hash of its fields
\* replaced a local entry
C22_Witness ==
    /\ arResult # NoResult
    /\ \E i \in 1..Len(arResult.toReplace), j \in 1..Len(arRemote) :
          /\ arRemote[j].txid = arResult.toReplace[i].entry.txid
          /\ arRemote[j].contentHash \notin {NoHash, computeContentHash(arRemote[j].content)}

\* ---------------------------------------------------------------------------
\* The pure compactDuplicates (cache_core.js) on bounded lists of entries
\* ---------------------------------------------------------------------------

MaxCompactLen == 3

CompactStatuses == {"confirmed", "pending", "tombstoned"}
\* (e.createdAt || 0): an entry without createdAt counts as 0
CompactCreatedAts == {0, 1}
CompactHashes == {computeContentHash("a"), computeContentHash("b")}
\* the fields compactDuplicates reads, but for the id
CompactFields ==
    [txid : {NoTx} \cup (1..MaxArTxid), status : CompactStatuses,
     createdAt : CompactCreatedAts, contentHash : CompactHashes]
\* a list of entries with distinct ids (id is the key path of the store)
compactList(f) ==
    [i \in DOMAIN f |-> [id |-> i, txid |-> f[i].txid, status |-> f[i].status,
                         createdAt |-> f[i].createdAt,
                         contentHash |-> f[i].contentHash]]

\* lines 141-155: TRUE when the later entry e is kept and prev is dropped
keepsLater(prev, e) ==
    IF prev.status = "confirmed" /\ e.status # "confirmed" THEN FALSE
    ELSE IF e.status = "confirmed" /\ prev.status # "confirmed" THEN TRUE
    ELSE e.createdAt > prev.createdAt

\* the loop body without seenTx.set(e.txid, keep) of line 161
sameTxidStepNoSet(acc, e) ==
    IF e.txid = NoTx THEN acc
    ELSE IF e.txid \notin DOMAIN acc.seenTx
    THEN [acc EXCEPT !.seenTx = (e.txid :> e) @@ acc.seenTx]
    ELSE LET prev == acc.seenTx[e.txid]
             keep == IF keepsLater(prev, e) THEN e ELSE prev
             drop == IF keepsLater(prev, e) THEN prev ELSE e
         IN  [seenTx |-> acc.seenTx,
              toDelete |-> IF drop.id # keep.id THEN Append(acc.toDelete, drop.id)
                           ELSE acc.toDelete]

\* lines 131-163: one iteration of the same-txid loop
sameTxidStep(acc, e) ==
    IF e.txid = NoTx THEN acc
    ELSE IF e.txid \notin DOMAIN acc.seenTx
    THEN [acc EXCEPT !.seenTx = (e.txid :> e) @@ acc.seenTx]
    ELSE LET prev == acc.seenTx[e.txid]
             keep == IF keepsLater(prev, e) THEN e ELSE prev
             drop == IF keepsLater(prev, e) THEN prev ELSE e
         IN  [seenTx |-> (e.txid :> keep) @@ acc.seenTx,
              toDelete |-> IF drop.id # keep.id THEN Append(acc.toDelete, drop.id)
                           ELSE acc.toDelete]

RECURSIVE sameTxidLoop(_, _, _)
sameTxidLoop(es, i, acc) ==
    IF i > Len(es) THEN acc
    ELSE sameTxidLoop(es, i + 1, sameTxidStep(acc, es[i]))

\* lines 166-170
confirmedByHash(es) ==
    {es[i].contentHash : i \in {j \in 1..Len(es) : es[j].status = "confirmed"}}

seqIncludes(sq, x) == \E i \in 1..Len(sq) : sq[i] = x

\* lines 172-178
RECURSIVE hashLoop(_, _, _)
hashLoop(es, i, toDelete) ==
    IF i > Len(es) THEN toDelete
    ELSE LET e == es[i] IN
         IF /\ e.status # "confirmed"
            /\ e.contentHash \in confirmedByHash(es)
            /\ ~seqIncludes(toDelete, e.id)
         THEN hashLoop(es, i + 1, Append(toDelete, e.id))
         ELSE hashLoop(es, i + 1, toDelete)

\* line 180
notDeleted(es, toDelete) == SelectSeq(es, LAMBDA e : ~seqIncludes(toDelete, e.id))

coreCompactDuplicates(es) ==
    LET first == sameTxidLoop(es, 1, [seenTx |-> <<>>, toDelete |-> <<>>])
        toDelete == hashLoop(es, 1, first.toDelete)
    IN  [toKeep |-> notDeleted(es, toDelete), toDelete |-> toDelete]

InitCompact ==
    /\ ArIdle /\ StoreIdle /\ UploadIdle /\ SyncIdle
    /\ dfArgs = NoArgs /\ dfResult = NoDecision
    /\ \E k \in 0..MaxCompactLen : \E f \in [1..k -> CompactFields] :
          callArgs = [entries |-> compactList(f)]
    /\ callResult = NoResult /\ HandlersIdle

\* one call of the pure function on the drawn list
CallCompactDuplicates ==
    /\ callResult = NoResult
    /\ callResult' = coreCompactDuplicates(callArgs.entries)
    /\ UNCHANGED <<callArgs, creating, probeVars, persistVars, arVars, storeVars, upVars, smVars, dfVars>>

NextCompact == CallCompactDuplicates

SpecCompact == InitCompact /\ [][NextCompact]_vars

compactCalled == callResult # NoResult /\ "entries" \in DOMAIN callArgs

\* C23: compacting the kept entries of a compaction deletes nothing and keeps
\* all of them: compactDuplicates is idempotent
C23_CompactIdempotent ==
    compactCalled =>
        LET again == coreCompactDuplicates(callResult.toKeep)
        IN  again.toDelete = <<>> /\ again.toKeep = callResult.toKeep

\* a compaction of three entries that dropped a same-txid duplicate, deleted a
\* pending entry by its content hash, and kept an entry
C23_Witness ==
    /\ compactCalled
    /\ Len(callArgs.entries) = MaxCompactLen
    /\ Len(callResult.toDelete) = 2
    /\ Len(callResult.toKeep) = 1
    /\ \E i, j \in 1..Len(callArgs.entries) :
          /\ i # j
          /\ callArgs.entries[i].txid # NoTx
          /\ callArgs.entries[i].txid = callArgs.entries[j].txid
          /\ callArgs.entries[i].status = callArgs.entries[j].status
    /\ \E i \in 1..Len(callArgs.entries) :
          /\ callArgs.entries[i].txid = NoTx
          /\ callArgs.entries[i].status = "pending"
          /\ seqIncludes(callResult.toDelete, callArgs.entries[i].id)

\* the lists with the elements of es in another order
permutationsOf(es) ==
    {[i \in 1..Len(es) |-> es[f[i]]] :
     f \in {g \in [1..Len(es) -> 1..Len(es)] :
               \A i, j \in 1..Len(es) : g[i] = g[j] => i = j}}

\* C24: compacting any permutation of the list deletes the same set of ids
\* and keeps the same set of entries
C24_CompactOrderIndependent ==
    compactCalled =>
        \A perm \in permutationsOf(callArgs.entries) :
            LET other == coreCompactDuplicates(perm)
            IN  /\ SeqRange(other.toDelete) = SeqRange(callResult.toDelete)
                /\ SeqRange(other.toKeep) = SeqRange(callResult.toKeep)

\* the pending entries of the list whose content hash a confirmed entry has
pendingWithConfirmedHash(es) ==
    {e \in SeqRange(es) :
        e.status = "pending" /\ e.contentHash \in confirmedByHash(es)}

\* C25: every pending entry sharing its content hash with a confirmed entry
\* is deleted, a confirmed entry with that hash is kept, and every content
\* hash of the list is still the hash of a kept entry
C25_ConfirmedCopyKept ==
    compactCalled =>
        /\ \A e \in pendingWithConfirmedHash(callArgs.entries) :
              /\ seqIncludes(callResult.toDelete, e.id)
              /\ \E k \in SeqRange(callResult.toKeep) :
                    k.status = "confirmed" /\ k.contentHash = e.contentHash
        /\ \A e \in SeqRange(callArgs.entries) :
              \E k \in SeqRange(callResult.toKeep) : k.contentHash = e.contentHash

\* ---------------------------------------------------------------------------
\* createServerless handlers that interleave at `await detectDuplicate(payload)`
\* ---------------------------------------------------------------------------

MaxCreating == 2

\* `const dup = await detectDuplicate(payload)` found no live entry with the
\* hash of the payload: the handler goes on after the await (with a duplicate
\* it returns and changes nothing)
CreateDetect(c) ==
    /\ Len(creating) < MaxCreating
    /\ ~detectDuplicate(store, c)
    /\ creating' = Append(creating, c)
    /\ UNCHANGED <<callArgs, callResult, probeVars, persistVars, storeVars>>

\* the rest of the handler up to `await uploadEntry`
CreatePut(i) ==
    /\ i \in 1..Len(creating)
    /\ keys => Cardinality(inflight) < MaxCreating
    /\ createRecord(creating[i])
    /\ creating' = [j \in 1..(Len(creating) - 1) |->
                      IF j < i THEN creating[j] ELSE creating[j + 1]]
    /\ UNCHANGED <<callArgs, callResult, probeVars, persistVars>>

otherThanCreate == <<arVars, upVars, smVars, dfVars>>

NextCreate ==
    \/ Login /\ UNCHANGED <<otherThanCreate, callVars>>
    \/ \E c \in Contents : CreateDetect(c) /\ UNCHANGED otherThanCreate
    \/ \E i \in 1..MaxCreating : CreatePut(i) /\ UNCHANGED otherThanCreate
    \/ \E op \in inflight : LedgerAccept(op) /\ UNCHANGED <<otherThanCreate, callVars>>
    \/ \E op \in inflight : CreateComplete(op) /\ UNCHANGED <<otherThanCreate, callVars>>
    \/ \E op \in inflight, code \in FailCodes :
          CreateFail(op, code) /\ UNCHANGED <<otherThanCreate, callVars>>
    \/ \E o \in Obj : DeleteBegin(o) /\ UNCHANGED <<otherThanCreate, callVars>>
    \/ \E op \in inflight : DeleteComplete(op) /\ UNCHANGED <<otherThanCreate, callVars>>
    \/ \E op \in inflight, code \in FailCodes :
          DeleteFail(op, code) /\ UNCHANGED <<otherThanCreate, callVars>>

SpecCreate == InitStore /\ [][NextCreate]_vars

liveWithHash(st, hash) == {e \in st : e.contentHash = hash /\ e.status # "tombstoned"}

\* the uploads of new entries with this content that are in flight for an
\* entry that is not tombstoned
createUploads(c) ==
    {op \in inflight : op.kind = "create" /\ op.content = c
                         /\ mem[op.obj].status # "tombstoned"}

\* C26: whatever the interleaving of creates with the same fields, the store
\* holds at most one live entry with their content hash and at most one upload
\* of them is in flight
C26_DoubleSubmitSuppressed ==
    \A c \in Contents :
        /\ Cardinality(liveWithHash(store, computeContentHash(c))) <= 1
        /\ Cardinality(createUploads(c)) <= 1

\* ---------------------------------------------------------------------------
\* seenRemote
\* ---------------------------------------------------------------------------

\* the entries with seenRemote set after a step whose txid had no entry with
\* seenRemote set before it
newlySeenRemote(before, after) ==
    {e \in after : e.seenRemote /\ ~\E x \in before : x.txid = e.txid /\ x.seenRemote}

\* C27: seenRemote is set on an entry only by a reconciliation pass whose
\* ledger query result holds the txid of the entry
C27_SeenRemoteOnlyAfterLedgerQuery ==
    [][\A e \in newlySeenRemote(store, store') :
           /\ hist'.op = "sync"
           /\ \E i \in 1..Len(hist'.remote) : hist'.remote[i].txid = e.txid]_vars

\* ---------------------------------------------------------------------------
\* The pure computeSyncInterval (sync_manager.js) on bounded inputs
\* ---------------------------------------------------------------------------

\* Date.now() at the call
IntervalNows == {600000, 700000, 1000000, 2000000}
\* how long before the call markDirty() last ran
IntervalElapsed == {0, 30000, 119999, 120000, 120001, 299999, 300000, 300001, 500000}
\* lastWriteAt: 0 until the first markDirty(), Date.now() of the last one after
IntervalWrites(nowMs) == {0} \cup {nowMs - el : el \in IntervalElapsed}

InitInterval ==
    /\ ArIdle /\ StoreIdle /\ UploadIdle /\ SyncIdle
    /\ dfArgs = NoArgs /\ dfResult = NoDecision
    /\ \E nowMs \in IntervalNows : \E w \in IntervalWrites(nowMs), d \in BOOLEAN :
          callArgs = [nowMs |-> nowMs, lastWriteAt |-> w, dirtyFlag |-> d]
    /\ callResult = NoResult /\ HandlersIdle

\* one call of the function on the drawn module state
CallComputeSyncInterval ==
    /\ callResult = NoResult
    /\ callResult' = [delay |-> computeSyncInterval(callArgs.nowMs, callArgs.lastWriteAt,
                                                    callArgs.dirtyFlag)]
    /\ UNCHANGED <<callArgs, creating, probeVars, persistVars, arVars, storeVars, upVars, smVars, dfVars>>

NextInterval == CallComputeSyncInterval

SpecInterval == InitInterval /\ [][NextInterval]_vars

intervalCalled == callResult # NoResult /\ "delay" \in DOMAIN callResult

\* a write happened less than `window` ms before the call
wroteWithin(window) ==
    callArgs.lastWriteAt > 0 /\ callArgs.nowMs - callArgs.lastWriteAt < window

\* C28: the call returns 30 s exactly when the dirty flag is set or a write
\* happened less than 120 s ago, otherwise 60 s exactly when a write happened
\* less than 300 s ago, otherwise 300 s (also when no write ever happened)
C28_IntervalByActivity ==
    intervalCalled =>
        LET active == callArgs.dirtyFlag \/ wroteWithin(120000)
            cooling == ~active /\ wroteWithin(300000)
        IN  /\ callResult.delay \in {30000, 60000, 300000}
            /\ callResult.delay = 30000 <=> active
            /\ callResult.delay = 60000 <=> cooling
            /\ callResult.delay = 300000 <=> (~active /\ ~cooling)

\* the flag is clear, the last write was 30 s before the call, and the call
\* returned the Active interval
C28_Witness ==
    /\ intervalCalled
    /\ ~callArgs.dirtyFlag
    /\ callArgs.lastWriteAt > 0
    /\ callArgs.nowMs - callArgs.lastWriteAt = 30000
    /\ callResult.delay = 30000

\* ---------------------------------------------------------------------------
\* app.js: probeAndUpdateDot and its exponential backoff
\* ---------------------------------------------------------------------------

PROBE_BASE_MS == 60000
PROBE_MAX_MS == 900000

ProbeTickMs == 60000
MaxProbeClock == 1200000
MaxProbing == 2
MaxProbeFails == 5

minOf(a, b) == IF a < b THEN a ELSE b

\* Math.min(PROBE_BASE_MS * Math.pow(2, state.fails), PROBE_MAX_MS)
probeBackoffMs(fails) == minOf(PROBE_BASE_MS * (2 ^ fails), PROBE_MAX_MS)

\* the early return of probeAndUpdateDot: still in the backoff window
inBackoffWindow(state, nowMs) ==
    /\ state # NoProbeState
    /\ nowMs - state.lastAttempt < probeBackoffMs(state.fails)

\* updateBookDots reaches an entry with a txid that is not on Arweave and
\* calls probeAndUpdateDot, which gets past the backoff test and awaits
\* probeAvailability (inside the window it returns and changes nothing)
ProbeCall(t) ==
    /\ ~probes[t].onArweave
    /\ probes[t].inFlight < MaxProbing
    /\ ~inBackoffWindow(probeBackoff[t], clock)
    /\ probes' = [probes EXCEPT ![t].inFlight = @ + 1, ![t].issuedAt = clock]
    /\ UNCHANGED <<probeBackoff, clock, sessionItems>>

\* the probe resolved without rec.arweave, or threw
ProbeFail(t) ==
    /\ probes[t].inFlight > 0
    /\ probes[t].failed < MaxProbeFails
    /\ LET prev == IF probeBackoff[t] = NoProbeState
                   THEN [fails |-> 0, lastAttempt |-> 0]
                   ELSE probeBackoff[t]
       IN  probeBackoff' = [probeBackoff EXCEPT
                               ![t] = [fails |-> prev.fails + 1, lastAttempt |-> clock]]
    /\ probes' = [probes EXCEPT ![t].inFlight = @ - 1, ![t].failed = @ + 1]
    /\ UNCHANGED <<clock, sessionItems>>

\* the probe resolved with rec.arweave
ProbeSuccess(t) ==
    /\ probes[t].inFlight > 0
    /\ probeBackoff' = [probeBackoff EXCEPT ![t] = NoProbeState]
    /\ probes' = [probes EXCEPT ![t].inFlight = @ - 1, ![t].onArweave = TRUE,
                                 ![t].failed = 0]
    /\ UNCHANGED <<clock, sessionItems>>

\* the Sync Now button: probeBackoff.clear()
resetProbeBackoff ==
    /\ \E t \in ProbeTxids : probeBackoff[t] # NoProbeState
    /\ probeBackoff' = [t \in ProbeTxids |-> NoProbeState]
    /\ UNCHANGED <<probes, clock, sessionItems>>

ProbeElapse ==
    /\ clock + ProbeTickMs <= MaxProbeClock
    /\ clock' = clock + ProbeTickMs
    /\ UNCHANGED <<probeBackoff, probes, sessionItems>>

otherThanProbe ==
    <<arVars, storeVars, smVars, dfVars, callArgs, callResult, creating, persistVars,
      lastFund, fundBlock, payments, attempts>>

NextProbe ==
    \/ \E t \in ProbeTxids : ProbeCall(t) /\ UNCHANGED otherThanProbe
    \/ \E t \in ProbeTxids : ProbeFail(t) /\ UNCHANGED otherThanProbe
    \/ \E t \in ProbeTxids : ProbeSuccess(t) /\ UNCHANGED otherThanProbe
    \/ resetProbeBackoff /\ UNCHANGED otherThanProbe
    \/ ProbeElapse /\ UNCHANGED otherThanProbe

SpecProbe == InitStore /\ [][NextProbe]_vars

\* the window after n consecutive failed probes: none, then 60 s doubled
\* with every failure, at most 15 min
windowAfter(n) == IF n = 0 THEN 0 ELSE minOf(60000 * (2 ^ n), 900000)

\* C29: every failed probe of an entry leaves it with the doubled window,
\* capped at 15 min; a probe of the entry is issued only when that window has
\* elapsed since its last probe was issued; a successful probe removes the
\* entry's backoff state
C29_ProbesBackOff ==
    [][\A t \in ProbeTxids :
          /\ probes'[t].failed = probes[t].failed + 1 =>
                /\ probeBackoff'[t] # NoProbeState
                /\ probeBackoffMs(probeBackoff'[t].fails) = windowAfter(probes'[t].failed)
          /\ probes'[t].inFlight = probes[t].inFlight + 1 =>
                \/ probes[t].issuedAt = NoAttempt
                \/ clock - probes[t].issuedAt >= windowAfter(probes[t].failed)
          /\ (probes'[t].inFlight < probes[t].inFlight /\ probes'[t].failed = 0) =>
                probeBackoff'[t] = NoProbeState]_vars

\* ---------------------------------------------------------------------------
\* storage_manager.js: the session items in localStorage and clearSession
\* ---------------------------------------------------------------------------

\* STORAGE_KEYS
STORAGE_KEYS ==
    {"bookish.account", "bookish.sym", "bookish.account.sessionEnc",
     "bookish.seed.manual", "bookish.seed.shown", "bookish.evmWallet.v1",
     "bookish.credential", "bookish.credential.pending"}

\* setAccount, setSymKey, setSessionSeed, setManualSeed, setWalletRecord,
\* setCredential, setPendingCredentialMapping, setSeedShown(true)
storageSet(key) ==
    /\ key \notin sessionItems
    /\ sessionItems' = sessionItems \cup {key}
    /\ UNCHANGED <<probeBackoff, probes, upVars>>

\* clearAuth, clearAccount, clearWallet, clearManualSeed, clearSeedShown,
\* clearCredential, clearPendingCredentialMapping
clearSession ==
    /\ sessionItems' = sessionItems \
          ({"bookish.sym", "bookish.account.sessionEnc"} \cup {"bookish.account"}
           \cup {"bookish.evmWallet.v1"} \cup {"bookish.seed.manual"}
           \cup {"bookish.seed.shown"} \cup {"bookish.credential"}
           \cup {"bookish.credential.pending"})
    /\ UNCHANGED <<probeBackoff, probes, upVars>>

\* performLogout with something in localStorage
Logout ==
    /\ sessionItems # {} \/ lastFund # NoFund \/ fundBlock # NoBlock
    /\ clearSession

otherThanLogout ==
    <<arVars, storeVars, smVars, dfVars, callArgs, callResult, creating, persistVars>>

\* one upload at a time next to the storage manager's writes
NextLogout ==
    \/ \E feeSent \in BOOLEAN : UploadBegin(1, feeSent) /\ UNCHANGED otherThanUpload
    \/ \E outcome \in PostOutcomes, price \in Prices,
          walletBal \in WalletBals, gasReserve \in GasReserves :
          FirstPost(1, outcome, price, walletBal, gasReserve) /\ UNCHANGED otherThanUpload
    \/ \E outcome \in {"sent", "insufficient", "error"} :
          FundSend(1, outcome) /\ UNCHANGED otherThanUpload
    \/ FundConfirmed(1) /\ UNCHANGED otherThanUpload
    \/ \E outcome \in PostOutcomes : Retry(1, outcome, MaxClock) /\ UNCHANGED otherThanUpload
    \/ Elapse(MaxClock) /\ UNCHANGED otherThanUpload
    \/ \E key \in STORAGE_KEYS : storageSet(key) /\ UNCHANGED otherThanLogout
    \/ Logout /\ UNCHANGED otherThanLogout

SpecLogout == InitUpload /\ [][NextLogout]_vars

\* C30: when clearSession has returned, localStorage holds no account record,
\* symmetric key, session seed, credential metadata or pending credential
\* mapping, no lastFund and no fundBlock
C30_ClearSessionRemovesAll ==
    [][Logout =>
          /\ sessionItems' \cap {"bookish.account", "bookish.sym",
                                  "bookish.account.sessionEnc", "bookish.credential",
                                  "bookish.credential.pending"} = {}
          /\ lastFund' = NoFund
          /\ fundBlock' = NoBlock]_vars

\* ---------------------------------------------------------------------------
\* credential_mapping.js: the lookup key check before the GraphQL queries
\* ---------------------------------------------------------------------------

KeyBaseLen == 60
MaxKeyTail == 5

HexLower == {"0", "1", "2", "3", "4", "5", "6", "7", "8", "9",
             "a", "b", "c", "d", "e", "f"}
\* the characters the last positions of a key are drawn from: two of [0-9a-f],
\* an upper-case hex digit, a letter outside hex, and the quote that would
\* close the string of the query template
KeyTailChars == {"0", "f", "F", "g", "\""}

\* a string lookup key: KeyBaseLen times "a", then the tail
stringKey(tail) ==
    [type |-> "string", chars |-> [i \in 1..KeyBaseLen |-> "a"] \o tail]
\* what a caller can pass that is not a string
NonStringKeys == {[type |-> "undefined"], [type |-> "number"], [type |-> "object"]}

\* `!lookupKey`: undefined and the empty string are falsy (the number is 0)
falsyKey(k) ==
    \/ k.type \in {"undefined", "number"}
    \/ k.type = "string" /\ k.chars = <<>>

\* the test with /^[0-9a-f]{64}$/i
isValidLookupKeyAnyCase(k) ==
    /\ k.type = "string"
    /\ Len(k.chars) = 64
    /\ \A i \in 1..Len(k.chars) : k.chars[i] \in HexLower \cup {"F"}

\* typeof lookupKey === 'string' && /^[0-9a-f]{64}$/.test(lookupKey)
isValidLookupKey(k) ==
    /\ k.type = "string"
    /\ Len(k.chars) = 64
    /\ \A i \in 1..Len(k.chars) : k.chars[i] \in HexLower

\* one fetch: the endpoint and the key interpolated into the query (NoKey for
\* the upload and for a download by txid)
NoKey == [type |-> "none"]
request(endpoint, k) == [endpoint |-> endpoint, key |-> k]

\* findCredentialMappingTx: the Irys query, and the Arweave query when Irys
\* found nothing; an endpoint answers "tx" or "none" (also for !ok and throw)
findCredentialMappingTx(k, irys, arweave) ==
    IF irys = "tx"
    THEN [txId |-> "tx", requests |-> <<request("irys-graphql", k)>>]
    ELSE [txId |-> arweave,
          requests |-> <<request("irys-graphql", k), request("arweave-graphql", k)>>]

uploadCredentialMapping(k, hasPayload, hasIrys, upload) ==
    IF falsyKey(k) \/ ~hasPayload THEN [outcome |-> "throw", requests |-> <<>>]
    ELSE IF ~isValidLookupKey(k) THEN [outcome |-> "throw", requests |-> <<>>]
    ELSE IF ~hasIrys THEN [outcome |-> "throw", requests |-> <<>>]
    ELSE [outcome |-> IF upload = "ok" THEN "txid" ELSE "throw",
          requests |-> <<request("irys-upload", NoKey)>>]

downloadCredentialMapping(k, irys, arweave, gateway) ==
    IF falsyKey(k) THEN [outcome |-> "throw", requests |-> <<>>]
    ELSE IF ~isValidLookupKey(k) THEN [outcome |-> "throw", requests |-> <<>>]
    ELSE LET found == findCredentialMappingTx(k, irys, arweave)
         IN  IF found.txId = "none"
             THEN [outcome |-> "null", requests |-> found.requests]
             ELSE IF gateway = "irys"
             THEN [outcome |-> "payload",
                   requests |-> Append(found.requests, request("irys-gateway", NoKey))]
             ELSE [outcome |-> IF gateway = "arweave" THEN "payload" ELSE "throw",
                   requests |-> found.requests \o <<request("irys-gateway", NoKey),
                                                    request("arweave-gateway", NoKey)>>]

credentialMappingExists(k, irys, arweave) ==
    IF falsyKey(k) \/ ~isValidLookupKey(k) THEN [outcome |-> "false", requests |-> <<>>]
    ELSE LET found == findCredentialMappingTx(k, irys, arweave)
         IN  [outcome |-> IF found.txId # "none" THEN "true" ELSE "false",
              requests |-> found.requests]

InitLookup ==
    /\ ArIdle /\ StoreIdle /\ UploadIdle /\ SyncIdle
    /\ dfArgs = NoArgs /\ dfResult = NoDecision
    /\ \/ \E n \in 0..MaxKeyTail : \E tail \in [1..n -> KeyTailChars] :
             callArgs = [lookupKey |-> stringKey(tail)]
       \/ \E k \in NonStringKeys \cup {[type |-> "string", chars |-> <<>>]} :
             callArgs = [lookupKey |-> k]
    /\ callResult = NoResult /\ HandlersIdle

lookupUnchanged == <<callArgs, creating, probeVars, persistVars, arVars, storeVars, upVars, smVars, dfVars>>

CallUploadCredentialMapping(hasPayload, hasIrys, upload) ==
    /\ callResult = NoResult
    /\ callResult' = [fn |-> "upload"] @@
                     uploadCredentialMapping(callArgs.lookupKey, hasPayload, hasIrys, upload)
    /\ UNCHANGED lookupUnchanged

CallDownloadCredentialMapping(irys, arweave, gateway) ==
    /\ callResult = NoResult
    /\ callResult' = [fn |-> "download"] @@
                     downloadCredentialMapping(callArgs.lookupKey, irys, arweave, gateway)
    /\ UNCHANGED lookupUnchanged

CallCredentialMappingExists(irys, arweave) ==
    /\ callResult = NoResult
    /\ callResult' = [fn |-> "exists"] @@
                     credentialMappingExists(callArgs.lookupKey, irys, arweave)
    /\ UNCHANGED lookupUnchanged

NextLookup ==
    \/ \E hasPayload, hasIrys \in BOOLEAN, upload \in {"ok", "fail"} :
          CallUploadCredentialMapping(hasPayload, hasIrys, upload)
    \/ \E irys, arweave \in {"tx", "none"}, gateway \in {"irys", "arweave", "fail"} :
          CallDownloadCredentialMapping(irys, arweave, gateway)
    \/ \E irys, arweave \in {"tx", "none"} : CallCredentialMappingExists(irys, arweave)

SpecLookup == InitLookup /\ [][NextLookup]_vars

lookupCalled == callResult # NoResult /\ "fn" \in DOMAIN callResult

\* exactly 64 characters, each a digit or one of a..f
is64LowerHex(k) ==
    /\ k.type = "string"
    /\ Len(k.chars) = 64
    /\ \A i \in 1..64 : k.chars[i] \in HexLower

\* C31: with a lookup key that is not exactly 64 lower-case hex characters the
\* upload and the download throw, the existence test returns false, and no
\* request was made
C31_InvalidLookupKeyRejected ==
    (lookupCalled /\ ~is64LowerHex(callArgs.lookupKey)) =>
        /\ callResult.requests = <<>>
        /\ callResult.fn \in {"upload", "download"} => callResult.outcome = "throw"
        /\ callResult.fn = "exists" => callResult.outcome = "false"

\* a download called with 64 characters, one of them the quote of the query
\* template, threw
C31_Witness ==
    /\ lookupCalled
    /\ callResult.fn = "download"
    /\ callArgs.lookupKey.type = "string"
    /\ Len(callArgs.lookupKey.chars) = 64
    /\ \E i \in 1..64 : callArgs.lookupKey.chars[i] = "\""
    /\ callResult.outcome = "throw"

\* ---------------------------------------------------------------------------
\* sync_manager.js: the loop after stopSync
\* ---------------------------------------------------------------------------

\* a call of stopSync in any state: without a handle in syncInterval it
\* returns and changes nothing
stopSyncCall ==
    \/ stopSync
    \/ syncInterval = NoTimer /\ smHist' = [op |-> "none"]
       /\ UNCHANGED <<smNow, isSyncing, dirtyFlag, lastWriteAt, forceBalanceCheck,
                      syncCycleCount, lastBalanceCheckAt, currentBalanceETH,
                      syncInterval, timers, cycles, checks, forceRequested>>

otherThanStop ==
    <<arVars, storeVars, upVars, dfVars, callArgs, callResult, creating, probeVars,
      autoPersist>>

NextStop ==
    \/ startSync /\ loopStopped' = FALSE /\ UNCHANGED otherThanStop
    \/ stopSyncCall /\ loopStopped' = TRUE /\ UNCHANGED otherThanStop
    \/ triggerSyncNow /\ loopStopped' = FALSE /\ UNCHANGED otherThanStop
    \/ \E t \in timers : TimerFire(t) /\ UNCHANGED <<loopStopped, otherThanStop>>
    \/ \E c \in cycles, hasWallet \in BOOLEAN, confirmed \in BOOLEAN :
          CycleBalance(c, hasWallet, confirmed) /\ UNCHANGED <<loopStopped, otherThanStop>>
    \/ \E c \in cycles, balanceETH \in BalancesETH :
          CycleBalanceDone(c, balanceETH) /\ UNCHANGED <<loopStopped, otherThanStop>>
    \/ \E c \in cycles : CycleEnd(c) /\ UNCHANGED <<loopStopped, otherThanStop>>
    \/ Tick /\ UNCHANGED <<loopStopped, otherThanStop>>

SpecStop == InitSync /\ [][NextStop]_vars

cycleIds(cs) == {c.id : c \in cs}

\* C32: once stopSync has returned, a cycle starts only in a call of startSync
\* or triggerSyncNow
C32_NoCycleAfterStop ==
    [][(loopStopped /\ cycleIds(cycles') \ cycleIds(cycles) # {}) => ~loopStopped']_vars

\* C33: when markDirty runs while the loop waits for its timer, that timer is
\* due no later than the Active interval (30 s) after the write
C33_WriteResetsToActive ==
    [][(markDirty /\ cycles = {} /\ syncInterval # NoTimer) =>
          \A t \in timers' : t.id = syncInterval' => t.at <= lastWriteAt' + 30000]_vars

\* C36: at most one sync loop: for every sequence of startSync, stopSync,
\* triggerSyncNow and timer firings at most one cycle timer is pending
C36_AtMostOneTimer ==
    Cardinality(timers) <= 1

(***************************************************************************)
(* sync_manager.js: checkBalanceAndAutoPersist with its persistence part   *)
(***************************************************************************)
\* 0.00002 ETH, in units of 0.00001 ETH
MIN_FUNDING_ETH == 2

\* what getWalletBalance resolves to here: below, and at, the minimum funding
FundingBalancesETH == {NoBalance, "0.00001", "0.00002"}

\* Number(balanceETH) in units of 0.00001 ETH; null coerces to 0
ethUnits(balanceETH) ==
    CASE balanceETH = "0.00001" -> 1
      [] balanceETH = "0.00002" -> 2
      [] balanceETH = "0.001" -> 100
      [] OTHER -> 0

\* getAccountPersistenceState of a logged-in user
getAccountPersistenceState ==
    IF autoPersist.persisted THEN "confirmed" ELSE "local"

\* the persistence test without `!autoPersistenceTriggered`
shouldPersistNoFlag(balanceETH, triggered, accountState) ==
    /\ ethUnits(balanceETH) >= MIN_FUNDING_ETH
    /\ accountState = "local"

\* `isFunded && !autoPersistenceTriggered && accountState === 'local'`
shouldPersist(balanceETH, triggered, accountState) ==
    /\ ethUnits(balanceETH) >= MIN_FUNDING_ETH
    /\ ~triggered
    /\ accountState = "local"

\* isSyncing after a cycle whose reset sits at the end of the try block
isSyncingAfterNoFinally(threw) == threw

\* isSyncing after a cycle: `finally { isSyncing = false }`
isSyncingAfter(threw) == FALSE

\* a balance check (of a cycle or of triggerPersistenceCheck) at a later await
runAt(r, stage, nowMs, accountState) ==
    [f \in DOMAIN r \cup {"accountState"} |->
        CASE f = "stage" -> stage
          [] f = "now" -> nowMs
          [] f = "accountState" -> accountState
          [] OTHER -> r[f]]

\* the balance checks in flight, and those awaiting accountPersistenceCallback
runs == cycles \cup checks
persisting == {r \in runs : r.stage = "persist"}

\* r leaves checkBalanceAndAutoPersist: a cycle goes on to bookSyncCallback
\* (or, when the check rejected, to the catch and finally of runSyncCycle and
\* its caller's setTimeout), a manual check is over
runLeaves(r, threw) ==
    IF r \in checks
    THEN /\ checks' = checks \ {r}
         /\ UNCHANGED <<cycles, isSyncing, timers, syncInterval>>
    ELSE IF threw
    THEN LET t == newTimer(timers, computeSyncInterval(smNow, lastWriteAt, dirtyFlag))
         IN /\ cycles' = cycles \ {r}
            /\ isSyncing' = isSyncingAfter(TRUE)
            /\ timers' = timers \cup {t} /\ syncInterval' = t.id
            /\ UNCHANGED checks
    ELSE /\ cycles' = (cycles \ {r}) \cup {runAt(r, "books", 0, "")}
         /\ UNCHANGED <<checks, isSyncing, timers, syncInterval>>

\* r goes on inside checkBalanceAndAutoPersist, to the await of `stage`
runAwaits(r, stage, nowMs, accountState) ==
    /\ IF r \in checks
       THEN checks' = (checks \ {r}) \cup {runAt(r, stage, nowMs, accountState)}
                      /\ UNCHANGED cycles
       ELSE cycles' = (cycles \ {r}) \cup {runAt(r, stage, nowMs, accountState)}
                      /\ UNCHANGED checks
    /\ UNCHANGED <<isSyncing, timers, syncInterval>>

\* lines 297-329 up to the await of the callback, with the balance now cached
persistenceDecision(r, balanceETH, accountState) ==
    IF shouldPersist(balanceETH, autoPersist.triggered, accountState)
    THEN /\ autoPersist' = [autoPersist EXCEPT !.triggered = TRUE]
         /\ runAwaits(r, "persist", 0, accountState)
         /\ smHist' = [op |-> "decided", invoked |-> TRUE, balance |-> balanceETH,
                       accountState |-> accountState, inFlight |-> persisting # {}]
    ELSE /\ UNCHANGED autoPersist
         /\ runLeaves(r, FALSE)
         /\ smHist' = [op |-> "decided", invoked |-> FALSE, balance |-> balanceETH,
                       accountState |-> accountState, inFlight |-> persisting # {}]

\* getWalletInfoCallback settled: info is "address", "none" or "throw"; then
\* the account state, the throttle test, and on a throttled check the
\* persistence test on the cached balance
PersistWallet(r, info) ==
    /\ r \in runs /\ r.stage = "wallet"
    /\ IF info = "throw"
       THEN /\ runLeaves(r, TRUE)
            /\ smHist' = [op |-> "rejected", cycle |-> r \in cycles]
            /\ UNCHANGED autoPersist
       ELSE IF info = "none"
       THEN /\ runLeaves(r, FALSE)
            /\ smHist' = [op |-> "aborted"]
            /\ UNCHANGED autoPersist
       ELSE IF canThrottle(getAccountPersistenceState = "confirmed", forceBalanceCheck,
                           currentBalanceETH, smNow, lastBalanceCheckAt)
       THEN persistenceDecision(r, currentBalanceETH, getAccountPersistenceState)
       ELSE /\ runAwaits(r, "rpc", smNow, getAccountPersistenceState)
            /\ smHist' = [op |-> "querying"]
            /\ UNCHANGED autoPersist
    /\ UNCHANGED <<smNow, dirtyFlag, lastWriteAt, forceBalanceCheck, syncCycleCount,
                   lastBalanceCheckAt, currentBalanceETH, forceRequested>>

\* getWalletBalance settled: its throw is caught at line 331, its value is
\* cached and the persistence test follows
PersistBalance(r, balanceETH) ==
    /\ r \in runs /\ r.stage = "rpc"
    /\ IF balanceETH = NoBalance
       THEN /\ runLeaves(r, FALSE)
            /\ smHist' = [op |-> "queried", ok |-> FALSE]
            /\ UNCHANGED <<autoPersist, currentBalanceETH, lastBalanceCheckAt,
                           forceBalanceCheck>>
       ELSE /\ currentBalanceETH' = balanceETH
            /\ lastBalanceCheckAt' = r.now
            /\ forceBalanceCheck' = FALSE
            /\ persistenceDecision(r, balanceETH, r.accountState)
    /\ UNCHANGED <<smNow, dirtyFlag, lastWriteAt, syncCycleCount, forceRequested>>

\* accountPersistenceCallback settled: "persisted" (the account has its
\* arweaveTxId), "failed" (handlePersistAccountToArweave caught its error and
\* returned) or "throw" (caught at line 324)
PersistCallbackDone(r, outcome) ==
    /\ r \in runs /\ r.stage = "persist"
    /\ autoPersist' =
          CASE outcome = "persisted" ->
                  [autoPersist EXCEPT !.persisted = TRUE, !.completed = TRUE]
            [] outcome = "failed" -> [autoPersist EXCEPT !.completed = TRUE]
            [] OTHER -> [autoPersist EXCEPT !.triggered = FALSE]
    /\ runLeaves(r, FALSE)
    /\ smHist' = [op |-> "persistDone", outcome |-> outcome]
    /\ UNCHANGED <<smNow, dirtyFlag, lastWriteAt, forceBalanceCheck, syncCycleCount,
                   lastBalanceCheckAt, currentBalanceETH, forceRequested>>

otherThanPersist ==
    <<arVars, storeVars, upVars, dfVars, callArgs, callResult, creating, probeVars,
      loopStopped>>

NextPersist ==
    \/ triggerSyncNow /\ UNCHANGED <<autoPersist, otherThanPersist>>
    \/ triggerPersistenceCheck /\ UNCHANGED <<autoPersist, otherThanPersist>>
    \/ \E r \in runs, info \in {"address", "none", "throw"} :
          PersistWallet(r, info) /\ UNCHANGED otherThanPersist
    \/ \E r \in runs, balanceETH \in FundingBalancesETH :
          PersistBalance(r, balanceETH) /\ UNCHANGED otherThanPersist
    \/ \E r \in runs, outcome \in {"persisted", "failed", "throw"} :
          PersistCallbackDone(r, outcome) /\ UNCHANGED otherThanPersist
    \/ \E c \in cycles : CycleEnd(c) /\ UNCHANGED <<autoPersist, otherThanPersist>>

SpecPersist == InitSync /\ [][NextPersist]_vars

\* C34: a balance check that reaches the persistence test while the account
\* is local and the balance is at least the minimum funding invokes the
\* persistence callback, unless an invocation is in flight or the account has
\* been persisted; so also after an attempt that failed
C34_FundedLocalAccountPersists ==
    (/\ smHist.op = "decided"
     /\ smHist.accountState = "local" /\ ~autoPersist.persisted
     /\ ethUnits(smHist.balance) >= MIN_FUNDING_ETH
     /\ ~smHist.inFlight)
        => smHist.invoked

\* C37: auto-persistence is single-flight: the persistence callback is invoked
\* only when no earlier invocation is in flight, and not again after an
\* invocation that completed without throwing
C37_PersistenceSingleFlight ==
    [][(persisting' \ persisting # {}) =>
          (persisting = {} /\ ~autoPersist.completed)]_vars

\* a funded balance check of a local account that did not invoke the callback
\* because another check's invocation was in flight
C37_Witness ==
    /\ smHist.op = "decided" /\ ~smHist.invoked /\ smHist.inFlight
    /\ smHist.accountState = "local" /\ ethUnits(smHist.balance) >= MIN_FUNDING_ETH
    /\ ~autoPersist.completed

\* C38: isSyncing is true only while a cycle is executing, and a cycle that
\* ends, by its callbacks returning or throwing, leaves isSyncing false
C38_IsSyncingResetAtCycleEnd ==
    [][/\ isSyncing' => cycles' # {}
       /\ cycleIds(cycles) \ cycleIds(cycles') # {} => ~isSyncing']_vars

\* a cycle whose getWalletInfoCallback threw has ended, and a later cycle ran
C38_Witness ==
    /\ smHist.op = "rejected" /\ smHist.cycle
    /\ ~isSyncing /\ cycles = {}
    /\ autoPersist.completed

\* C35: tombstones dominate supersession: a remote entry whose prevTxid is the
\* txid of a local entry referenced by a tombstone is returned neither in
\* toReplace nor in toAdd
C35_TombstoneDominatesSupersession ==
    arResult # NoResult =>
        \A r \in SeqRange(arRemote) :
            (r.prevTxid \in ArRefs /\ r.prevTxid \in ArLocalTxids)
            => /\ \A x \in SeqRange(arResult.toReplace) : x.entry.txid # r.txid
               /\ \A e \in SeqRange(arResult.toAdd) : e.txid # r.txid

\* C39: reconciliation is idempotent on the store: after a pass, a second pass
\* with the same remote list and tombstones leaves the store as it is, and its
\* pure applyRemote returns empty toAdd, toUpdate and toTombstone
C39_ReconciliationIdempotent ==
    hist.op = "sync" =>
        LET second == coreApplyRemote(hist.remote, hist.tombstones, listAllRaw(store))
        IN /\ second.toAdd = <<>>
           /\ second.toUpdate = <<>>
           /\ second.toTombstone = <<>>
           /\ cacheApplyRemote(store, hist.remote, hist.tombstones) = store

\* a pass whose remote list held an entry that is now cached as confirmed
\* and seen: the second pass finds nothing to update
C39_Witness ==
    /\ hist.op = "sync"
    /\ \E e \in getAllActive(store) :
          e.txid \in histRemoteTxids /\ e.status = "confirmed" /\ e.seenRemote

\* an upload of the entry is in flight (createServerless or replayOps), or an
\* Op of the queue names it
scheduledForPublication(e) ==
    \/ \E op \in inflight : op.kind \in {"create", "replay"} /\ mem[op.obj].id = e.id
    \/ \E q \in opsQueue : q.localId = e.id

\* an Op leaves the queue only when the store holds no unpublished entry
\* under its localId
opRemovedOnlyWhenPublished ==
    [][\A q \in opsQueue \ opsQueue' :
          \A e \in store' : e.id = q.localId => e.txid # NoTx]_vars

\* C40: every stored entry with no txid and status pending has an upload in
\* flight or an Op in the queue whose localId is its id
C40_UnpublishedStaysScheduled ==
    \A e \in store :
        (e.txid = NoTx /\ e.status = "pending") => scheduledForPublication(e)

====
